---- MODULE Spec2Model ----
(***************************************************************************)
(* Reconciliation engine of the APISIX ingress controller: the ApisixTls   *)
(* controller (pkg/ingress/apisix_tls.go) with its secret cross-reference  *)
(* index, and the ApisixUpstream controller                                *)
(* (pkg/ingress/controller/apisix_upstream.go), each with its rate-limited *)
(* work queue, the informer cache it reads and the gateway it writes.      *)
(*                                                                         *)
(* The two controllers live in different packages and share no state; a    *)
(* behaviour of Spec follows one of them, selected by `controller`.        *)
(***************************************************************************)
EXTENDS Integers, Sequences, FiniteSets, TLC

VARIABLES
    controller,     \* the part of the program this behaviour follows: "tls" |
                    \* "upstream" | "translator" | "nodes" | "resolver" | "index"
    first,          \* the resource version the cluster started from
    clock,          \* last resource version issued by the cluster (a counter)
    secrets,        \* secret lister: secret reference -> payload or Nil
    tlsCache,       \* ApisixTls lister: key -> object or Nil
    tlsQueue,       \* apisixTlsController.workqueue
    tlsPc,          \* position of the single runWorker goroutine
    tlsObj,         \* runWorker: obj
    tlsErr,         \* runWorker: err (TRUE = non-nil)
    secretSSLMap,   \* Controller.secretSSLMap: secretKey -> (ssl ID -> Ssl)
    apisix,         \* SSL objects held by the gateway: ID -> Ssl
    syncLog,        \* what the last call of sync did (recorder, gateway call)
    lastSync,       \* per key, the Ssl of its latest reconcile if that synced
    upsCache,       \* ApisixUpstream lister: key -> object or Nil
    upsQueue,       \* ApisixUpstreamController.workqueue
    upsPc,          \* position of the runWorker goroutine
    upsObj,         \* processNextWorkItem: obj
    upsGateway,     \* keys whose upstreams the gateway holds
    upsLog,         \* what the last call of syncHandler did
    trIn,           \* translator: the input handed to the translation
    trOut,          \* translator: what the translation returned for it
    runPc,          \* position of run / Run: "wait" | "started" | "returned";
                    \* of the translator: "new" | "constructed"
    stop,           \* the shutdown signal (ctx.Done(), stop) has fired
    synced,         \* the informers whose HasSynced reports true
    bucketOf,       \* secretSSLMap as stored: secretKey -> address of a bucket
    sslMaps,        \* the allocated buckets (*sync.Map): address -> (ID -> Ssl)
    calls           \* concurrent executions of syncSecretSSL: position, locals

tlsVars == <<secrets, tlsCache, tlsQueue, tlsPc, tlsObj, tlsErr,
             secretSSLMap, apisix, syncLog, lastSync>>

upsVars == <<upsCache, upsQueue, upsPc, upsObj, upsGateway, upsLog>>

trVars == <<trIn, trOut>>

runVars == <<runPc, stop, synced>>

idxVars == <<bucketOf, sslMaps, calls>>

vars == <<controller, first, clock, tlsVars, upsVars, trVars, runVars,
          idxVars>>

---------------------------------------------------------------------------
(* Bounds                                                                  *)

\* number of writes (create, update, delete) the cluster makes
MaxWrites == 3

\* number of times one queue item is handed to a worker
MaxAttempts == 1

---------------------------------------------------------------------------
(* Values                                                                  *)

Nil == [nil |-> TRUE]

EventAdd == "add"
EventUpdate == "update"
EventDelete == "delete"

EventTypeNormal == "Normal"
EventTypeWarning == "Warning"

\* namespace/name keys of the ApisixTls objects of the cluster
TlsKeys == {<<"ns1", "foo">>, <<"ns1", "bar">>, <<"ns2", "foo">>}

\* the namespaces the controller is configured to watch
WatchedNamespaces == {"ns1"}

HostLists == {<<"api6.com">>}

SecretRefs == {[Namespace |-> "ns1", Name |-> "cert"],
               [Namespace |-> "ns1", Name |-> "alt"]}

\* the secrets the cluster stores and deletes while the controller runs
ChangingSecrets == {r \in SecretRefs : r.Name = "cert"}

\* the secrets an ApisixTls object of the given key refers to
RefsOf(k) == IF k = <<"ns1", "foo">> THEN SecretRefs ELSE ChangingSecrets

\* secret payloads (Data): byte strings under the keys "cert" and "key"
\* "root" and "123456" as bytes
GoodSecret == [cert |-> <<114, 111, 111, 116>>,
               key |-> <<49, 50, 51, 52, 53, 54>>]
\* "toor" and "654321" as bytes
OtherSecret == [cert |-> <<116, 111, 111, 114>>,
                key |-> <<54, 53, 52, 51, 50, 49>>]
\* a secret without the "key" entry
MalformedSecret == [cert |-> <<114, 111, 111, 116>>]

\* the payload a secret of the cluster holds while it exists
PayloadOf(r) == IF r.Name = "cert" THEN GoodSecret ELSE OtherSecret

\* namespace/name keys of the ApisixUpstream objects of the cluster
UpsKeys == {<<"ns1", "svc">>, <<"ns2", "svc">>}

\* operations of an UpstreamQueueObj
ADD == "ADD"
UPDATE == "UPDATE"
DELETE == "DELETE"

\* the resource versions the cluster may start from; the versions issued
\* in a behaviour stay below ten or cross from one decimal digit to two
FirstVersions == {10 - 4, 10 - 2}

\* resource versions are decimal strings: the digits of n
RECURSIVE Digits(_)
Digits(n) == IF n < 10 THEN <<n>> ELSE Append(Digits(n \div 10), n % 10)

\* Go's s > t on strings: bytewise lexicographic order
RECURSIVE StringGreater(_, _)
StringGreater(s, t) ==
    IF s = <<>> THEN FALSE
    ELSE IF t = <<>> THEN TRUE
    ELSE IF Head(s) # Head(t) THEN Head(s) > Head(t)
    ELSE StringGreater(Tail(s), Tail(t))

---------------------------------------------------------------------------
(* client-go: keys                                                         *)

\* cache.MetaNamespaceKeyFunc: the key of an object that has metadata, an
\* error for any other value
MetaNamespaceKeyFunc(obj) ==
    IF {"Namespace", "Name"} \subseteq DOMAIN obj
    THEN [err |-> FALSE, key |-> <<obj.Namespace, obj.Name>>]
    ELSE [err |-> TRUE, key |-> <<>>]

\* Controller.namespaceWatching
namespaceWatching(key) == key[1] \in WatchedNamespaces

---------------------------------------------------------------------------
(* client-go: workqueue.RateLimitingInterface with                         *)
(* ItemFastSlowRateLimiter(1s, 60s, 5).  A queue is a record               *)
(*   queue      : the FIFO of items ready to be handed out                 *)
(*   dirty      : items that need processing                               *)
(*   processing : items handed out by Get and not yet Done                 *)
(*   waiting    : delayed adds (AddAfter) not yet fired: [item, delay], in *)
(*                the order they were made                                 *)
(*   failures   : the rate limiter's per item counter                      *)
(*   shuttingDown : ShutDown was called                                    *)
(* Items are pointers: two events are the same item only when they are the *)
(* same allocation (field id).                                             *)

fastDelay == 1
slowDelay == 60
maxFastAttempts == 5

EmptyQueue ==
    [queue |-> <<>>, dirty |-> {}, processing |-> {}, waiting |-> <<>>,
     failures |-> <<>>, shuttingDown |-> FALSE]

\* ItemFastSlowRateLimiter: the number of failures recorded for the item
NumRequeues(q, item) ==
    IF item.id \in DOMAIN q.failures THEN q.failures[item.id] ELSE 0

\* a rate limiter that turns slow one add early
When_SlowAtLimit(q, item) ==
    LET n == NumRequeues(q, item) + 1
    IN  [failures |-> [i \in DOMAIN q.failures \cup {item.id} |->
                          IF i = item.id THEN n ELSE q.failures[i]],
         delay |-> IF n < maxFastAttempts THEN fastDelay ELSE slowDelay]

\* ItemFastSlowRateLimiter.When: counts the item and returns its delay
When(q, item) ==
    LET n == NumRequeues(q, item) + 1
    IN  [failures |-> [i \in DOMAIN q.failures \cup {item.id} |->
                          IF i = item.id THEN n ELSE q.failures[i]],
         delay |-> IF n <= maxFastAttempts THEN fastDelay ELSE slowDelay]

\* an AddRateLimited that drops the item once it has left the fast regime
AddRateLimited_Capped(q, item) ==
    LET w == When(q, item)
    IN  IF NumRequeues(q, item) >= maxFastAttempts
        THEN [q EXCEPT !.failures = w.failures]
        ELSE [q EXCEPT !.failures = w.failures,
                       !.waiting = Append(@, [item |-> item,
                                              delay |-> w.delay])]

\* workqueue.AddRateLimited: AddAfter(item, rateLimiter.When(item)); AddAfter
\* returns at once when the queue is shutting down
AddRateLimited(q, item) ==
    LET w == When(q, item)
    IN  IF q.shuttingDown THEN [q EXCEPT !.failures = w.failures]
        ELSE [q EXCEPT !.failures = w.failures,
                       !.waiting = Append(@, [item |-> item,
                                              delay |-> w.delay])]

\* workqueue.Add, called when the delay of a waiting item has elapsed
Add(q, item) ==
    IF q.shuttingDown THEN q
    ELSE IF item \in q.dirty THEN q
    ELSE IF item \in q.processing
         THEN [q EXCEPT !.dirty = @ \cup {item}]
         ELSE [q EXCEPT !.dirty = @ \cup {item}, !.queue = Append(@, item)]

\* workqueue.Get on a non-empty queue
Get(q) ==
    LET item == Head(q.queue)
    IN  [q EXCEPT !.queue = Tail(@),
                  !.processing = @ \cup {item},
                  !.dirty = @ \ {item}]

\* workqueue.Done
Done(q, item) ==
    IF item \in q.dirty
    THEN [q EXCEPT !.processing = @ \ {item}, !.queue = Append(@, item)]
    ELSE [q EXCEPT !.processing = @ \ {item}]

\* workqueue.Forget: ItemFastSlowRateLimiter.Forget deletes the counter
Forget(q, item) ==
    [q EXCEPT !.failures = [i \in DOMAIN q.failures \ {item.id} |->
                               q.failures[i]]]

\* the waiting adds whose timer can be the next to fire: those that no
\* earlier add with the same or a shorter delay precedes; the loop that
\* serves the timers ends when the queue is shut down
Ready(q) ==
    IF q.shuttingDown THEN {}
    ELSE {i \in 1..Len(q.waiting) :
             \A j \in 1..(i - 1) : q.waiting[j].delay > q.waiting[i].delay}

\* workqueue.ShutDown
ShutDown(q) == [q EXCEPT !.shuttingDown = TRUE]

\* a delaying queue that loses the adds of items that failed before
FireWaiting_Lost(q, i) ==
    IF NumRequeues(q, q.waiting[i].item) > 1
    THEN [q EXCEPT !.waiting = SubSeq(@, 1, i - 1) \o
                               SubSeq(@, i + 1, Len(@))]
    ELSE Add([q EXCEPT !.waiting = SubSeq(@, 1, i - 1) \o
                                   SubSeq(@, i + 1, Len(@))],
             q.waiting[i].item)

\* the delaying queue fires the timer of the i-th waiting add
FireWaiting(q, i) ==
    Add([q EXCEPT !.waiting = SubSeq(@, 1, i - 1) \o
                              SubSeq(@, i + 1, Len(@))],
        q.waiting[i].item)

\* the items a queue still holds in any form
Pending(q) ==
    {q.queue[i] : i \in 1..Len(q.queue)} \cup q.dirty \cup q.processing
        \cup {q.waiting[i].item : i \in 1..Len(q.waiting)}

---------------------------------------------------------------------------
(* Translation of an ApisixTls into a gateway Ssl                          *)

\* the characters of the bytes that occur in the payloads
Chr(b) ==
    CASE b = 49 -> "1" [] b = 50 -> "2" [] b = 51 -> "3" [] b = 52 -> "4"
      [] b = 53 -> "5" [] b = 54 -> "6" [] b = 111 -> "o" [] b = 114 -> "r"
      [] b = 116 -> "t" [] OTHER -> "?"

\* string(bytes)
RECURSIVE BytesToString(_)
BytesToString(bs) ==
    IF bs = <<>> THEN "" ELSE Chr(Head(bs)) \o BytesToString(Tail(bs))

\* TranslateSSL with the ID taken from the name alone
TranslateSSL_NameAsID(tls) ==
    LET s == secrets[tls.Secret]
    IN  IF s = Nil
        THEN [err |-> TRUE, field |-> "secret", ssl |-> Nil]
        ELSE IF "cert" \notin DOMAIN s \/ "key" \notin DOMAIN s
        THEN [err |-> TRUE, field |-> "secret", ssl |-> Nil]
        ELSE [err |-> FALSE, field |-> "",
              ssl |-> [ID |-> tls.Name,
                       Snis |-> tls.Hosts,
                       Cert |-> BytesToString(s.cert),
                       Key |-> BytesToString(s.key),
                       Status |-> 1]]

\* translator.TranslateSSL: [err, field, ssl]
TranslateSSL(tls) ==
    LET s == secrets[tls.Secret]
    IN  IF s = Nil
        THEN [err |-> TRUE, field |-> "secret", ssl |-> Nil]
        ELSE IF "cert" \notin DOMAIN s \/ "key" \notin DOMAIN s
        THEN [err |-> TRUE, field |-> "secret", ssl |-> Nil]
        ELSE [err |-> FALSE, field |-> "",
              ssl |-> [ID |-> tls.Namespace \o "_" \o tls.Name,
                       Snis |-> tls.Hosts,
                       Cert |-> BytesToString(s.cert),
                       Key |-> BytesToString(s.key),
                       Status |-> 1]]

---------------------------------------------------------------------------
(* Secret cross-reference index and gateway                                *)

\* sync.Map.Store on a bucket
BucketStore(bucket, id, ssl) ==
    [i \in DOMAIN bucket \cup {id} |-> IF i = id THEN ssl ELSE bucket[i]]

\* sync.Map.Delete on a bucket
BucketDelete(bucket, id) ==
    [i \in DOMAIN bucket \ {id} |-> bucket[i]]

\* a Store that replaces the outer map by the one bucket
MapStore_Alone(m, key, bucket) ==
    [k \in {key} |-> bucket]

\* sync.Map.Store on the outer map
MapStore(m, key, bucket) ==
    [k \in DOMAIN m \cup {key} |-> IF k = key THEN bucket ELSE m[k]]

\* syncSecretSSL that stores a new bucket on every upsert
syncSecretSSL_FreshBucket(m, key, ssl, event) ==
    IF key \in DOMAIN m /\ event = EventDelete
    THEN MapStore(m, key, BucketDelete(m[key], ssl.ID))
    ELSE IF event # EventDelete
         THEN MapStore(m, key, BucketStore(<<>>, ssl.ID, ssl))
         ELSE m

\* apisixTlsController.syncSecretSSL
syncSecretSSL(m, key, ssl, event) ==
    IF key \in DOMAIN m
    THEN IF event = EventDelete
         THEN MapStore(m, key, BucketDelete(m[key], ssl.ID))
         ELSE MapStore(m, key, BucketStore(m[key], ssl.ID, ssl))
    ELSE IF event # EventDelete
         THEN MapStore(m, key, BucketStore(<<>>, ssl.ID, ssl))
         ELSE m

\* the admin API call Controller.syncSSL makes for an event type
SSLCall(event) ==
    IF event = EventDelete THEN "delete"
    ELSE IF event = EventUpdate THEN "update" ELSE "create"

\* Controller.syncSSL: the call either fails and leaves the gateway as it
\* is, or replaces / removes the object with the ssl's ID
syncSSL(gw, ssl, event, ok) ==
    IF ~ok THEN [err |-> TRUE, apisix |-> gw]
    ELSE IF event = EventDelete
         THEN [err |-> FALSE, apisix |-> BucketDelete(gw, ssl.ID)]
         ELSE [err |-> FALSE, apisix |-> BucketStore(gw, ssl.ID, ssl)]

---------------------------------------------------------------------------
(* apisixTlsController.sync                                                *)

NoLog ==
    [found |-> FALSE, input |-> Nil, ssl |-> Nil, secretKey |-> "",
     call |-> "none", event |-> "none", outcome |-> "none"]

\* sync without the check that discards a Delete whose key resolves
sync_NoStaleCheck(ev, gatewayOk) ==
    LET tls0 == tlsCache[ev.Object]
        same == [err |-> FALSE, secretSSLMap |-> secretSSLMap,
                 apisix |-> apisix,
                 log |-> [NoLog EXCEPT !.found = (tls0 # Nil),
                                       !.outcome = "discarded"]]
    IN  IF tls0 = Nil /\ ev.Type # EventDelete THEN same
        ELSE
        LET tls == IF ev.Type = EventDelete THEN ev.Tombstone ELSE tls0
            tr == TranslateSSL(tls)
            base == [NoLog EXCEPT !.found = (tls0 # Nil), !.input = tls]
        IN  IF tr.err
            THEN [err |-> TRUE, secretSSLMap |-> secretSSLMap,
                  apisix |-> apisix,
                  log |-> [base EXCEPT !.event = EventTypeWarning,
                                       !.outcome = "translateFailed"]]
            ELSE
            LET secretKey == tls.Secret.Namespace \o "_" \o tls.Secret.Name
                index == syncSecretSSL(secretSSLMap, secretKey, tr.ssl,
                                       ev.Type)
                gw == syncSSL(apisix, tr.ssl, ev.Type, gatewayOk)
                done == [base EXCEPT !.ssl = tr.ssl,
                                     !.secretKey = secretKey,
                                     !.call = SSLCall(ev.Type)]
            IN  IF gw.err
                THEN [err |-> TRUE, secretSSLMap |-> index,
                      apisix |-> gw.apisix,
                      log |-> [done EXCEPT !.event = EventTypeWarning,
                                           !.outcome = "syncFailed"]]
                ELSE [err |-> FALSE, secretSSLMap |-> index,
                      apisix |-> gw.apisix,
                      log |-> [done EXCEPT !.event = EventTypeNormal,
                                           !.outcome = "synced"]]

\* sync that updates the secret index after the gateway call succeeded
sync_IndexAfterGateway(ev, gatewayOk) ==
    LET tls0 == tlsCache[ev.Object]
        same == [err |-> FALSE, secretSSLMap |-> secretSSLMap,
                 apisix |-> apisix,
                 log |-> [NoLog EXCEPT !.found = (tls0 # Nil),
                                       !.outcome = "discarded"]]
    IN  IF tls0 = Nil /\ ev.Type # EventDelete THEN same
        ELSE IF ev.Type = EventDelete /\ tls0 # Nil THEN same
        ELSE
        LET tls == IF ev.Type = EventDelete THEN ev.Tombstone ELSE tls0
            tr == TranslateSSL(tls)
            base == [NoLog EXCEPT !.found = (tls0 # Nil), !.input = tls]
        IN  IF tr.err
            THEN [err |-> TRUE, secretSSLMap |-> secretSSLMap,
                  apisix |-> apisix,
                  log |-> [base EXCEPT !.event = EventTypeWarning,
                                       !.outcome = "translateFailed"]]
            ELSE
            LET secretKey == tls.Secret.Namespace \o "_" \o tls.Secret.Name
                index == syncSecretSSL(secretSSLMap, secretKey, tr.ssl,
                                       ev.Type)
                gw == syncSSL(apisix, tr.ssl, ev.Type, gatewayOk)
                done == [base EXCEPT !.ssl = tr.ssl,
                                     !.secretKey = secretKey,
                                     !.call = SSLCall(ev.Type)]
            IN  IF gw.err
                THEN [err |-> TRUE, secretSSLMap |-> secretSSLMap,
                      apisix |-> gw.apisix,
                      log |-> [done EXCEPT !.event = EventTypeWarning,
                                           !.outcome = "syncFailed"]]
                ELSE [err |-> FALSE, secretSSLMap |-> index,
                      apisix |-> gw.apisix,
                      log |-> [done EXCEPT !.event = EventTypeNormal,
                                           !.outcome = "synced"]]

\* the result of sync(ev): the returned error, the index and the gateway
\* after the call, and the log of what the call did.  gatewayOk says whether
\* the admin API call, if one is made, succeeds.
sync(ev, gatewayOk) ==
    LET tls0 == tlsCache[ev.Object]
        same == [err |-> FALSE, secretSSLMap |-> secretSSLMap,
                 apisix |-> apisix,
                 log |-> [NoLog EXCEPT !.found = (tls0 # Nil),
                                       !.outcome = "discarded"]]
    IN  IF tls0 = Nil /\ ev.Type # EventDelete THEN same
        ELSE IF ev.Type = EventDelete /\ tls0 # Nil THEN same
        ELSE
        LET tls == IF ev.Type = EventDelete THEN ev.Tombstone ELSE tls0
            tr == TranslateSSL(tls)
            base == [NoLog EXCEPT !.found = (tls0 # Nil), !.input = tls]
        IN  IF tr.err
            THEN [err |-> TRUE, secretSSLMap |-> secretSSLMap,
                  apisix |-> apisix,
                  log |-> [base EXCEPT !.event = EventTypeWarning,
                                       !.outcome = "translateFailed"]]
            ELSE
            LET secretKey == tls.Secret.Namespace \o "_" \o tls.Secret.Name
                index == syncSecretSSL(secretSSLMap, secretKey, tr.ssl,
                                       ev.Type)
                gw == syncSSL(apisix, tr.ssl, ev.Type, gatewayOk)
                done == [base EXCEPT !.ssl = tr.ssl,
                                     !.secretKey = secretKey,
                                     !.call = SSLCall(ev.Type)]
            IN  IF gw.err
                THEN [err |-> TRUE, secretSSLMap |-> index,
                      apisix |-> gw.apisix,
                      log |-> [done EXCEPT !.event = EventTypeWarning,
                                           !.outcome = "syncFailed"]]
                ELSE [err |-> FALSE, secretSSLMap |-> index,
                      apisix |-> gw.apisix,
                      log |-> [done EXCEPT !.event = EventTypeNormal,
                                           !.outcome = "synced"]]

\* handleSyncErr that forgets the item whatever the error
handleSyncErr_AlwaysForget(q, obj, err) ==
    Forget(q, obj)

\* handleSyncErr that does not retry a failed Delete
handleSyncErr_ForgetDeletes(q, obj, err) ==
    IF ~err \/ obj.Type = EventDelete THEN Forget(q, obj)
    ELSE AddRateLimited(q, obj)

\* apisixTlsController.handleSyncErr
handleSyncErr(q, obj, err) ==
    IF ~err THEN Forget(q, obj) ELSE AddRateLimited(q, obj)

---------------------------------------------------------------------------
(* The state in which the controller has been constructed, its run       *)
(* function has passed the wait for the caches and the worker runs          *)

\* the informers of the two controllers
Informers == {"apisixTls", "secret", "apisixUpstream"}

NoUpsLog ==
    [found |-> FALSE, call |-> "none", convertErr |-> FALSE, err |-> FALSE]

Init ==
    /\ controller \in {"tls", "upstream"}
    /\ first \in FirstVersions
    /\ controller = "tls" => first = 10 - 2
    /\ clock = first
    /\ upsCache = [k \in UpsKeys |-> Nil]
    /\ upsQueue = EmptyQueue
    /\ upsPc = "get"
    /\ upsObj = Nil
    /\ upsGateway = {}
    /\ upsLog = NoUpsLog
    /\ trIn = Nil
    /\ trOut = Nil
    /\ secrets = [r \in SecretRefs |-> PayloadOf(r)]
    /\ tlsCache = [k \in TlsKeys |-> Nil]
    /\ tlsQueue = EmptyQueue
    /\ tlsPc = "get"
    /\ tlsObj = Nil
    /\ tlsErr = FALSE
    /\ secretSSLMap = <<>>
    /\ apisix = <<>>
    /\ syncLog = NoLog
    /\ lastSync = [k \in TlsKeys |-> Nil]
    /\ runPc = IF controller = "tls" THEN "started" ELSE "returned"
    /\ stop = FALSE
    /\ synced = Informers
    /\ bucketOf = <<>>
    /\ sslMaps = <<>>
    /\ calls = <<>>

---------------------------------------------------------------------------
(* The cluster: secrets                                                    *)

\* a secret is created
SecretStored(r) ==
    /\ controller = "tls"
    /\ clock < first + MaxWrites
    /\ secrets[r] = Nil
    /\ clock' = clock + 1
    /\ secrets' = [secrets EXCEPT ![r] = PayloadOf(r)]
    /\ UNCHANGED upsVars
    /\ UNCHANGED trVars
    /\ UNCHANGED runVars
    /\ UNCHANGED idxVars
    /\ UNCHANGED <<controller, first, tlsCache, tlsQueue, tlsPc, tlsObj,
                   tlsErr, secretSSLMap, apisix, syncLog, lastSync>>

\* a secret is deleted
SecretDeleted(r) ==
    /\ controller = "tls"
    /\ clock < first + MaxWrites
    /\ secrets[r] # Nil
    /\ clock' = clock + 1
    /\ secrets' = [secrets EXCEPT ![r] = Nil]
    /\ UNCHANGED upsVars
    /\ UNCHANGED trVars
    /\ UNCHANGED runVars
    /\ UNCHANGED idxVars
    /\ UNCHANGED <<controller, first, tlsCache, tlsQueue, tlsPc, tlsObj,
                   tlsErr, secretSSLMap, apisix, syncLog, lastSync>>

---------------------------------------------------------------------------
(* The informer of ApisixTls: the cache changes and the handler runs       *)

TlsEvent(type, key, tombstone, id) ==
    [id |-> id, Type |-> type, Object |-> key, Tombstone |-> tombstone]

\* apisixTlsController.onAdd
onAdd(q, obj, id) ==
    LET k == MetaNamespaceKeyFunc(obj)
    IN  IF k.err THEN q
        ELSE IF ~namespaceWatching(k.key) THEN q
        ELSE AddRateLimited(q, TlsEvent(EventAdd, k.key, Nil, id))

\* apisixTlsController.onUpdate
onUpdate(q, prev, curr, id) ==
    IF prev.ResourceVersion = curr.ResourceVersion THEN q
    ELSE LET k == MetaNamespaceKeyFunc(curr)
         IN  IF k.err THEN q
             ELSE IF ~namespaceWatching(k.key) THEN q
             ELSE AddRateLimited(q, TlsEvent(EventUpdate, k.key, Nil, id))

\* apisixTlsController.onDelete
onDelete(q, obj, id) ==
    LET k == MetaNamespaceKeyFunc(obj)
    IN  IF k.err THEN q
        ELSE IF ~namespaceWatching(k.key) THEN q
        ELSE AddRateLimited(q, TlsEvent(EventDelete, k.key, obj, id))

NewTls(k, hosts, ref, version) ==
    [Namespace |-> k[1], Name |-> k[2], ResourceVersion |-> version,
     Hosts |-> hosts, Secret |-> ref]

ApisixTlsCreated(k, hosts, ref) ==
    /\ controller = "tls"
    /\ clock < first + MaxWrites
    /\ tlsCache[k] = Nil
    /\ clock' = clock + 1
    /\ LET obj == NewTls(k, hosts, ref, Digits(clock + 1))
       IN  /\ tlsCache' = [tlsCache EXCEPT ![k] = obj]
           /\ tlsQueue' = onAdd(tlsQueue, obj, clock + 1)
    /\ UNCHANGED upsVars
    /\ UNCHANGED trVars
    /\ UNCHANGED runVars
    /\ UNCHANGED idxVars
    /\ UNCHANGED <<controller, first, secrets, tlsPc, tlsObj, tlsErr, secretSSLMap,
                   apisix, syncLog, lastSync>>

ApisixTlsUpdated(k, hosts, ref) ==
    /\ controller = "tls"
    /\ clock < first + MaxWrites
    /\ tlsCache[k] # Nil
    /\ clock' = clock + 1
    /\ LET obj == NewTls(k, hosts, ref, Digits(clock + 1))
       IN  /\ tlsCache' = [tlsCache EXCEPT ![k] = obj]
           /\ tlsQueue' = onUpdate(tlsQueue, tlsCache[k], obj, clock + 1)
    /\ UNCHANGED upsVars
    /\ UNCHANGED trVars
    /\ UNCHANGED runVars
    /\ UNCHANGED idxVars
    /\ UNCHANGED <<controller, first, secrets, tlsPc, tlsObj, tlsErr, secretSSLMap,
                   apisix, syncLog, lastSync>>

ApisixTlsDeleted(k) ==
    /\ controller = "tls"
    /\ clock < first + MaxWrites
    /\ tlsCache[k] # Nil
    /\ clock' = clock + 1
    /\ tlsCache' = [tlsCache EXCEPT ![k] = Nil]
    /\ tlsQueue' = onDelete(tlsQueue, tlsCache[k], clock + 1)
    /\ UNCHANGED upsVars
    /\ UNCHANGED trVars
    /\ UNCHANGED runVars
    /\ UNCHANGED idxVars
    /\ UNCHANGED <<controller, first, secrets, tlsPc, tlsObj, tlsErr, secretSSLMap,
                   apisix, syncLog, lastSync>>

---------------------------------------------------------------------------
(* The work queue and the worker of the ApisixTls controller               *)

\* the delay of a rate-limited add elapses, for an item the rate limiter
\* has counted at most cap times
TlsDelayFires(cap) ==
    /\ controller = "tls"
    /\ \E i \in Ready(tlsQueue) :
          /\ NumRequeues(tlsQueue, tlsQueue.waiting[i].item) <= cap
          /\ tlsQueue' = FireWaiting(tlsQueue, i)
    /\ UNCHANGED upsVars
    /\ UNCHANGED trVars
    /\ UNCHANGED runVars
    /\ UNCHANGED idxVars
    /\ UNCHANGED <<controller, first, clock, secrets, tlsCache, tlsPc, tlsObj,
                   tlsErr, secretSSLMap, apisix, syncLog, lastSync>>

TlsDelayElapsed == TlsDelayFires(MaxAttempts)

\* runWorker: obj, quit := c.workqueue.Get()
TlsGet ==
    /\ controller = "tls"
    /\ tlsPc = "get"
    /\ tlsQueue.queue # <<>>
    /\ tlsObj' = Head(tlsQueue.queue)
    /\ tlsQueue' = Get(tlsQueue)
    /\ tlsPc' = "sync"
    /\ UNCHANGED upsVars
    /\ UNCHANGED trVars
    /\ UNCHANGED runVars
    /\ UNCHANGED idxVars
    /\ UNCHANGED <<controller, first, clock, secrets, tlsCache, tlsErr,
                   secretSSLMap, apisix, syncLog, lastSync>>

\* runWorker: err := c.sync(ctx, obj.(*types.Event))
TlsSync ==
    /\ controller = "tls"
    /\ tlsPc = "sync"
    /\ \E gatewayOk \in BOOLEAN :
          LET r == sync(tlsObj, gatewayOk)
          IN  /\ tlsErr' = r.err
              /\ secretSSLMap' = r.secretSSLMap
              /\ apisix' = r.apisix
              /\ syncLog' = r.log
              /\ lastSync' = [lastSync EXCEPT ![tlsObj.Object] =
                                 IF r.log.outcome = "synced"
                                 THEN [Type |-> tlsObj.Type,
                                       ssl |-> r.log.ssl,
                                       secretKey |-> r.log.secretKey]
                                 ELSE Nil]
    /\ tlsPc' = "handle"
    /\ UNCHANGED upsVars
    /\ UNCHANGED trVars
    /\ UNCHANGED runVars
    /\ UNCHANGED idxVars
    /\ UNCHANGED <<controller, first, clock, secrets, tlsCache, tlsQueue, tlsObj>>

\* runWorker: c.workqueue.Done(obj); c.handleSyncErr(obj, err)
TlsHandle ==
    /\ controller = "tls"
    /\ tlsPc = "handle"
    /\ tlsQueue' = handleSyncErr(Done(tlsQueue, tlsObj), tlsObj, tlsErr)
    /\ tlsPc' = "get"
    /\ tlsObj' = Nil
    /\ tlsErr' = FALSE
    /\ syncLog' = NoLog
    /\ UNCHANGED upsVars
    /\ UNCHANGED trVars
    /\ UNCHANGED runVars
    /\ UNCHANGED idxVars
    /\ UNCHANGED <<controller, first, clock, secrets, tlsCache, secretSSLMap,
                   apisix, lastSync>>

---------------------------------------------------------------------------
(* ApisixUpstreamController                                                *)

UpstreamQueueObj(key, oldObj, ope, id) ==
    [id |-> id, Key |-> key, OldObj |-> oldObj, Ope |-> ope]

\* apisix.ApisixUpstreamBuilder.Convert: the gateway upstreams of a CRD,
\* or an error and no upstream
Convert(crd, ok) ==
    IF ok THEN [err |-> FALSE, upstreams |-> {<<crd.Namespace, crd.Name>>}]
    ELSE [err |-> TRUE, upstreams |-> {}]

\* state.ApisixCombination.Remove for a list of upstreams: the call
\* either fails and leaves the gateway as it is, or removes them
Remove(gw, upstreams, ok) ==
    IF ~ok THEN [err |-> TRUE, gateway |-> gw]
    ELSE [err |-> FALSE, gateway |-> gw \ upstreams]

\* state.ApisixCombination.Solver for a list of upstreams: the call
\* either fails and leaves the gateway as it is, or stores them
Solver(gw, upstreams, ok) ==
    IF ~ok THEN [err |-> TRUE, gateway |-> gw]
    ELSE [err |-> FALSE, gateway |-> gw \cup upstreams]

\* syncHandler that returns the lister's not-found error
syncHandler_RetryNotFound(sqo, convertOk, gatewayOk) ==
    LET cached == upsCache[sqo.Key]
        discard == [err |-> FALSE, gateway |-> upsGateway,
                    log |-> [NoUpsLog EXCEPT !.found = (cached # Nil)]]
    IN  IF sqo.Ope = DELETE
        THEN IF /\ cached # Nil
                /\ StringGreater(cached.ResourceVersion,
                                 sqo.OldObj.ResourceVersion)
             THEN discard
             ELSE LET aub == Convert(sqo.OldObj, convertOk)
                      r == Remove(upsGateway, aub.upstreams, gatewayOk)
                  IN  [err |-> r.err, gateway |-> r.gateway,
                       log |-> [found |-> (cached # Nil), call |-> "remove",
                                convertErr |-> aub.err, err |-> r.err]]
        ELSE IF cached = Nil
             THEN [discard EXCEPT !.err = TRUE, !.log.err = TRUE]
             ELSE LET aub == Convert(cached, convertOk)
                      r == Solver(upsGateway, aub.upstreams, gatewayOk)
                  IN  [err |-> r.err, gateway |-> r.gateway,
                       log |-> [found |-> TRUE, call |-> "solver",
                                convertErr |-> aub.err, err |-> r.err]]

\* ApisixUpstreamController.syncHandler: the returned error, the gateway
\* after the call and the log of what the call did.  convertOk says whether
\* Convert succeeds, gatewayOk whether the gateway call does.
syncHandler(sqo, convertOk, gatewayOk) ==
    LET cached == upsCache[sqo.Key]
        discard == [err |-> FALSE, gateway |-> upsGateway,
                    log |-> [NoUpsLog EXCEPT !.found = (cached # Nil)]]
    IN  IF sqo.Ope = DELETE
        THEN IF /\ cached # Nil
                /\ StringGreater(cached.ResourceVersion,
                                 sqo.OldObj.ResourceVersion)
             THEN discard
             ELSE LET aub == Convert(sqo.OldObj, convertOk)
                      r == Remove(upsGateway, aub.upstreams, gatewayOk)
                  IN  [err |-> r.err, gateway |-> r.gateway,
                       log |-> [found |-> (cached # Nil), call |-> "remove",
                                convertErr |-> aub.err, err |-> r.err]]
        ELSE IF cached = Nil
             THEN discard
             ELSE LET aub == Convert(cached, convertOk)
                      r == Solver(upsGateway, aub.upstreams, gatewayOk)
                  IN  [err |-> r.err, gateway |-> r.gateway,
                       log |-> [found |-> TRUE, call |-> "solver",
                                convertErr |-> aub.err, err |-> r.err]]

\* ApisixUpstreamController.addFunc
addFunc(q, obj, id) ==
    LET k == MetaNamespaceKeyFunc(obj)
    IN  IF k.err THEN q
        ELSE AddRateLimited(q, UpstreamQueueObj(k.key, Nil, ADD, id))

\* ApisixUpstreamController.updateFunc
updateFunc(q, oldObj, newObj, id) ==
    IF ~StringGreater(newObj.ResourceVersion, oldObj.ResourceVersion) THEN q
    ELSE LET k == MetaNamespaceKeyFunc(newObj)
         IN  IF k.err THEN q
             ELSE addFunc(q, UpstreamQueueObj(k.key, oldObj, UPDATE, id), id)

\* ApisixUpstreamController.deleteFunc
deleteFunc(q, obj, id) ==
    LET k == MetaNamespaceKeyFunc(obj)
    IN  IF k.err THEN q
        ELSE AddRateLimited(q, UpstreamQueueObj(k.key, obj, DELETE, id))

NewUpstream(k, version) ==
    [Namespace |-> k[1], Name |-> k[2], ResourceVersion |-> version]

ApisixUpstreamCreated(k) ==
    /\ controller = "upstream"
    /\ clock < first + MaxWrites
    /\ upsCache[k] = Nil
    /\ clock' = clock + 1
    /\ LET obj == NewUpstream(k, Digits(clock + 1))
       IN  /\ upsCache' = [upsCache EXCEPT ![k] = obj]
           /\ upsQueue' = addFunc(upsQueue, obj, clock + 1)
    /\ UNCHANGED tlsVars
    /\ UNCHANGED trVars
    /\ UNCHANGED runVars
    /\ UNCHANGED idxVars
    /\ UNCHANGED <<controller, first, upsPc, upsObj, upsGateway, upsLog>>

ApisixUpstreamUpdated(k) ==
    /\ controller = "upstream"
    /\ clock < first + MaxWrites
    /\ upsCache[k] # Nil
    /\ clock' = clock + 1
    /\ LET obj == NewUpstream(k, Digits(clock + 1))
       IN  /\ upsCache' = [upsCache EXCEPT ![k] = obj]
           /\ upsQueue' = updateFunc(upsQueue, upsCache[k], obj, clock + 1)
    /\ UNCHANGED tlsVars
    /\ UNCHANGED trVars
    /\ UNCHANGED runVars
    /\ UNCHANGED idxVars
    /\ UNCHANGED <<controller, first, upsPc, upsObj, upsGateway, upsLog>>

ApisixUpstreamDeleted(k) ==
    /\ controller = "upstream"
    /\ clock < first + MaxWrites
    /\ upsCache[k] # Nil
    /\ clock' = clock + 1
    /\ upsCache' = [upsCache EXCEPT ![k] = Nil]
    /\ upsQueue' = deleteFunc(upsQueue, upsCache[k], clock + 1)
    /\ UNCHANGED tlsVars
    /\ UNCHANGED trVars
    /\ UNCHANGED runVars
    /\ UNCHANGED idxVars
    /\ UNCHANGED <<controller, first, upsPc, upsObj, upsGateway, upsLog>>

\* the delay of a rate-limited add elapses, for an item the rate limiter
\* has counted at most cap times
UpsDelayFires(cap) ==
    /\ controller = "upstream"
    /\ \E i \in Ready(upsQueue) :
          /\ NumRequeues(upsQueue, upsQueue.waiting[i].item) <= cap
          /\ upsQueue' = FireWaiting(upsQueue, i)
    /\ UNCHANGED tlsVars
    /\ UNCHANGED trVars
    /\ UNCHANGED runVars
    /\ UNCHANGED idxVars
    /\ UNCHANGED <<controller, first, clock, upsCache, upsPc, upsObj,
                   upsGateway, upsLog>>

UpsDelayElapsed == UpsDelayFires(MaxAttempts)

\* processNextWorkItem: obj, shutdown := c.workqueue.Get()
UpsGet ==
    /\ controller = "upstream"
    /\ upsPc = "get"
    /\ upsQueue.queue # <<>>
    /\ upsObj' = Head(upsQueue.queue)
    /\ upsQueue' = Get(upsQueue)
    /\ upsPc' = "sync"
    /\ UNCHANGED tlsVars
    /\ UNCHANGED trVars
    /\ UNCHANGED runVars
    /\ UNCHANGED idxVars
    /\ UNCHANGED <<controller, first, clock, upsCache, upsGateway, upsLog>>

\* processNextWorkItem: c.syncHandler(sqo)
UpsSync ==
    /\ controller = "upstream"
    /\ upsPc = "sync"
    /\ \E convertOk, gatewayOk \in BOOLEAN :
          LET r == syncHandler(upsObj, convertOk, gatewayOk)
          IN  /\ upsGateway' = r.gateway
              /\ upsLog' = r.log
    /\ upsPc' = "finish"
    /\ UNCHANGED tlsVars
    /\ UNCHANGED trVars
    /\ UNCHANGED runVars
    /\ UNCHANGED idxVars
    /\ UNCHANGED <<controller, first, clock, upsCache, upsQueue, upsObj>>

\* the end of processNextWorkItem without the AddRateLimited
finish_NoRequeue(q, obj, err) ==
    Done(Forget(q, obj), obj)

\* processNextWorkItem after syncHandler: AddRateLimited on an error, Forget
\* otherwise, then the deferred Done
finish(q, obj, err) ==
    IF err THEN Done(AddRateLimited(q, obj), obj)
    ELSE Done(Forget(q, obj), obj)

UpsFinish ==
    /\ controller = "upstream"
    /\ upsPc = "finish"
    /\ upsQueue' = finish(upsQueue, upsObj, upsLog.err)
    /\ upsPc' = "get"
    /\ upsObj' = Nil
    /\ upsLog' = NoUpsLog
    /\ UNCHANGED tlsVars
    /\ UNCHANGED trVars
    /\ UNCHANGED runVars
    /\ UNCHANGED idxVars
    /\ UNCHANGED <<controller, first, clock, upsCache, upsGateway>>

---------------------------------------------------------------------------

Next ==
    \/ \E r \in ChangingSecrets : SecretStored(r)
    \/ \E r \in ChangingSecrets : SecretDeleted(r)
    \/ \E k \in TlsKeys, h \in HostLists :
          \E r \in RefsOf(k) : ApisixTlsCreated(k, h, r)
    \/ \E k \in TlsKeys, h \in HostLists :
          \E r \in RefsOf(k) : ApisixTlsUpdated(k, h, r)
    \/ \E k \in TlsKeys : ApisixTlsDeleted(k)
    \/ TlsDelayElapsed
    \/ TlsGet
    \/ TlsSync
    \/ TlsHandle
    \/ \E k \in UpsKeys : ApisixUpstreamCreated(k)
    \/ \E k \in UpsKeys : ApisixUpstreamUpdated(k)
    \/ \E k \in UpsKeys : ApisixUpstreamDeleted(k)
    \/ UpsDelayElapsed
    \/ UpsGet
    \/ UpsSync
    \/ UpsFinish

Spec == Init /\ [][Next]_vars

---------------------------------------------------------------------------
(* The translator on its own: TranslateSSL applied to one binding under    *)
(* one content of the secret lister                                        *)

\* the bindings handed to the translator
TranslateKeys == TlsKeys \cup {<<"helm", "foo">>}

TranslateHosts == {<<>>, <<"api6.com">>, <<"api6.com", "api7.com">>}

TranslateInputs ==
    {NewTls(k, h, r, Digits(10 - 2)) :
        k \in TranslateKeys, h \in TranslateHosts, r \in SecretRefs}

SecretStores ==
    [SecretRefs -> {Nil, GoodSecret, OtherSecret, MalformedSecret}]

InitTranslate ==
    /\ controller = "translator"
    /\ first = 10 - 2
    /\ clock = first
    /\ secrets \in SecretStores
    /\ tlsCache = [k \in TlsKeys |-> Nil]
    /\ tlsQueue = EmptyQueue
    /\ tlsPc = "get"
    /\ tlsObj = Nil
    /\ tlsErr = FALSE
    /\ secretSSLMap = <<>>
    /\ apisix = <<>>
    /\ syncLog = NoLog
    /\ lastSync = [k \in TlsKeys |-> Nil]
    /\ upsCache = [k \in UpsKeys |-> Nil]
    /\ upsQueue = EmptyQueue
    /\ upsPc = "get"
    /\ upsObj = Nil
    /\ upsGateway = {}
    /\ upsLog = NoUpsLog
    /\ trIn \in TranslateInputs
    /\ trOut = Nil
    /\ runPc = "started"
    /\ stop = FALSE
    /\ synced = Informers
    /\ bucketOf = <<>>
    /\ sslMaps = <<>>
    /\ calls = <<>>

\* c.controller.translator.TranslateSSL(tls)
TranslateSSLCalled ==
    /\ controller = "translator"
    /\ trOut = Nil
    /\ trOut' = TranslateSSL(trIn)
    /\ UNCHANGED <<controller, first, clock, tlsVars, upsVars, trIn>>
    /\ UNCHANGED runVars
    /\ UNCHANGED idxVars

NextTranslate == TranslateSSLCalled

SpecTranslate == InitTranslate /\ [][NextTranslate]_vars

---------------------------------------------------------------------------
(* Retries in depth: one binding and one upstream, each item handed to the *)
(* worker often enough to leave the fast regime of the rate limiter        *)

\* the rate limiter's count up to which an item is handed out again
RetryCap == maxFastAttempts + MaxAttempts

RetryKey == <<"ns1", "foo">>

RetryUpsKey == <<"ns1", "svc">>

NextRetry ==
    \/ \E r \in ChangingSecrets : SecretStored(r)
    \/ \E r \in ChangingSecrets : SecretDeleted(r)
    \/ \E h \in HostLists, r \in ChangingSecrets :
          ApisixTlsCreated(RetryKey, h, r)
    \/ ApisixTlsDeleted(RetryKey)
    \/ TlsDelayFires(RetryCap)
    \/ TlsGet
    \/ TlsSync
    \/ TlsHandle
    \/ ApisixUpstreamCreated(RetryUpsKey)
    \/ ApisixUpstreamDeleted(RetryUpsKey)
    \/ UpsDelayFires(RetryCap)
    \/ UpsGet
    \/ UpsSync
    \/ UpsFinish

SpecRetry == Init /\ [][NextRetry]_vars

---------------------------------------------------------------------------
(* Convergence: one watched binding with every kind of notification, each  *)
(* item handed to the worker again after its failures                      *)

\* the rate limiter's count up to which an item is handed out again
ConvergeCap == MaxAttempts + 2

\* the bindings that change
ConvergeKeys == {RetryKey}

NextConverge ==
    \/ \E r \in ChangingSecrets : SecretStored(r)
    \/ \E r \in ChangingSecrets : SecretDeleted(r)
    \/ \E k \in ConvergeKeys, h \in HostLists :
          \E r \in RefsOf(k) : ApisixTlsCreated(k, h, r)
    \/ \E k \in ConvergeKeys, h \in HostLists :
          \E r \in RefsOf(k) : ApisixTlsUpdated(k, h, r)
    \/ \E k \in ConvergeKeys : ApisixTlsDeleted(k)
    \/ TlsDelayFires(ConvergeCap)
    \/ TlsGet
    \/ TlsSync
    \/ TlsHandle

SpecConverge == Init /\ [][NextConverge]_vars

---------------------------------------------------------------------------
(* Update notifications that carry no newer state: a resync delivers the   *)
(* cached object as both the old and the new one, and a relist from a      *)
(* server that lags behind replaces the cached object by an older one      *)

\* the number a decimal string denotes
RECURSIVE Number(_)
Number(s) ==
    IF s = <<>> THEN 0
    ELSE 10 * Number(SubSeq(s, 1, Len(s) - 1)) + s[Len(s)]

\* how far the version of the old object is ahead of the new one's
Aheads == {0, 1}

\* the old object of such a notification
PriorOf(obj, ahead) ==
    [obj EXCEPT !.ResourceVersion = Digits(Number(@) + ahead)]

\* the informer calls onUpdate(prev, curr) with the cached object as curr
ApisixTlsUpdateNotified(k, ahead) ==
    /\ controller = "tls"
    /\ clock < first + MaxWrites
    /\ tlsCache[k] # Nil
    /\ clock' = clock + 1
    /\ tlsQueue' = onUpdate(tlsQueue, PriorOf(tlsCache[k], ahead),
                            tlsCache[k], clock + 1)
    /\ UNCHANGED upsVars
    /\ UNCHANGED trVars
    /\ UNCHANGED runVars
    /\ UNCHANGED idxVars
    /\ UNCHANGED <<controller, first, secrets, tlsCache, tlsPc, tlsObj,
                   tlsErr, secretSSLMap, apisix, syncLog, lastSync>>

\* the informer calls updateFunc(oldObj, newObj) with the cached object as
\* newObj
ApisixUpstreamUpdateNotified(k, ahead) ==
    /\ controller = "upstream"
    /\ clock < first + MaxWrites
    /\ upsCache[k] # Nil
    /\ clock' = clock + 1
    /\ upsQueue' = updateFunc(upsQueue, PriorOf(upsCache[k], ahead),
                              upsCache[k], clock + 1)
    /\ UNCHANGED tlsVars
    /\ UNCHANGED trVars
    /\ UNCHANGED runVars
    /\ UNCHANGED idxVars
    /\ UNCHANGED <<controller, first, upsCache, upsPc, upsObj, upsGateway,
                   upsLog>>

NextNotify ==
    \/ \E k \in TlsKeys, h \in HostLists :
          \E r \in RefsOf(k) : ApisixTlsCreated(k, h, r)
    \/ \E k \in TlsKeys, a \in Aheads : ApisixTlsUpdateNotified(k, a)
    \/ TlsDelayElapsed
    \/ TlsGet
    \/ TlsSync
    \/ TlsHandle
    \/ \E k \in UpsKeys : ApisixUpstreamCreated(k)
    \/ \E k \in UpsKeys, a \in Aheads : ApisixUpstreamUpdateNotified(k, a)
    \/ UpsDelayElapsed
    \/ UpsGet
    \/ UpsSync
    \/ UpsFinish

SpecNotify == Init /\ [][NextNotify]_vars

---------------------------------------------------------------------------
(* Start and shutdown: the controller from its construction on, with the   *)
(* informers syncing, run / Run being called and the shutdown signal       *)

\* the state after newApisixTlsController / BuildApisixUpstreamController
InitRun ==
    /\ controller \in {"tls", "upstream"}
    /\ first = 10 - 2
    /\ clock = first
    /\ upsCache = [k \in UpsKeys |-> Nil]
    /\ upsQueue = EmptyQueue
    /\ upsPc = "idle"
    /\ upsObj = Nil
    /\ upsGateway = {}
    /\ upsLog = NoUpsLog
    /\ trIn = Nil
    /\ trOut = Nil
    /\ secrets = [r \in SecretRefs |-> PayloadOf(r)]
    /\ tlsCache = [k \in TlsKeys |-> Nil]
    /\ tlsQueue = EmptyQueue
    /\ tlsPc = "idle"
    /\ tlsObj = Nil
    /\ tlsErr = FALSE
    /\ secretSSLMap = <<>>
    /\ apisix = <<>>
    /\ syncLog = NoLog
    /\ lastSync = [k \in TlsKeys |-> Nil]
    /\ runPc = "wait"
    /\ stop = FALSE
    /\ synced = {}
    /\ bucketOf = <<>>
    /\ sslMaps = <<>>
    /\ calls = <<>>

\* the informers whose HasSynced the run function of a controller has
TlsInformers == {"apisixTls", "secret"}

UpstreamInformers == {"apisixUpstream"}

\* an informer has delivered its initial list
InformerSynced(i) ==
    /\ i \notin synced
    /\ i \in (IF controller = "tls" THEN TlsInformers ELSE UpstreamInformers)
    /\ synced' = synced \cup {i}
    /\ UNCHANGED <<controller, first, clock, tlsVars, upsVars, trVars,
                   runPc, stop>>
    /\ UNCHANGED idxVars

\* the shutdown signal fires
StopFired ==
    /\ ~stop
    /\ stop' = TRUE
    /\ UNCHANGED <<controller, first, clock, tlsVars, upsVars, trVars,
                   runPc, synced>>
    /\ UNCHANGED idxVars

\* run: WaitForCacheSync returns true, the workers are started
TlsRunStartsWorkers ==
    /\ controller = "tls"
    /\ runPc = "wait"
    /\ TlsInformers \subseteq synced
    /\ runPc' = "started"
    /\ tlsPc' = "get"
    /\ UNCHANGED <<controller, first, clock, secrets, tlsCache, tlsQueue,
                   tlsObj, tlsErr, secretSSLMap, apisix, syncLog, lastSync,
                   upsVars, trVars, stop, synced>>
    /\ UNCHANGED idxVars

\* run: WaitForCacheSync returns false, run returns
TlsRunAborted ==
    /\ controller = "tls"
    /\ runPc = "wait"
    /\ stop
    /\ ~(TlsInformers \subseteq synced)
    /\ runPc' = "returned"
    /\ UNCHANGED <<controller, first, clock, tlsVars, upsVars, trVars,
                   stop, synced>>
    /\ UNCHANGED idxVars

\* run: <-ctx.Done(); c.workqueue.ShutDown()
TlsRunShutsDown ==
    /\ controller = "tls"
    /\ runPc = "started"
    /\ stop
    /\ runPc' = "returned"
    /\ tlsQueue' = ShutDown(tlsQueue)
    /\ UNCHANGED <<controller, first, clock, secrets, tlsCache, tlsPc,
                   tlsObj, tlsErr, secretSSLMap, apisix, syncLog, lastSync,
                   upsVars, trVars, stop, synced>>
    /\ UNCHANGED idxVars

\* runWorker: Get returns quit, the worker returns
TlsQuit ==
    /\ controller = "tls"
    /\ tlsPc = "get"
    /\ tlsQueue.queue = <<>>
    /\ tlsQueue.shuttingDown
    /\ tlsPc' = "exited"
    /\ UNCHANGED <<controller, first, clock, secrets, tlsCache, tlsQueue,
                   tlsObj, tlsErr, secretSSLMap, apisix, syncLog, lastSync,
                   upsVars, trVars, runVars>>
    /\ UNCHANGED idxVars

\* Run: WaitForCacheSync(stop) has no cache to wait for and returns true
\* at once; wait.Until runs runWorker unless stop is closed already
UpstreamRun ==
    /\ controller = "upstream"
    /\ runPc = "wait"
    /\ runPc' = "returned"
    /\ upsPc' = IF stop THEN "exited" ELSE "get"
    /\ UNCHANGED <<controller, first, clock, tlsVars, upsCache, upsQueue,
                   upsObj, upsGateway, upsLog, trVars, stop, synced>>
    /\ UNCHANGED idxVars

NextRun ==
    \/ \E i \in Informers : InformerSynced(i)
    \/ StopFired
    \/ TlsRunStartsWorkers
    \/ TlsRunAborted
    \/ TlsRunShutsDown
    \/ TlsQuit
    \/ UpstreamRun
    \/ \E h \in HostLists, r \in ChangingSecrets :
          ApisixTlsCreated(RetryKey, h, r)
    \/ ApisixTlsDeleted(RetryKey)
    \/ TlsDelayElapsed
    \/ TlsGet
    \/ TlsSync
    \/ TlsHandle
    \/ ApisixUpstreamCreated(RetryUpsKey)
    \/ ApisixUpstreamDeleted(RetryUpsKey)
    \/ UpsDelayElapsed
    \/ UpsGet
    \/ UpsSync
    \/ UpsFinish

SpecRun == InitRun /\ [][NextRun]_vars

---------------------------------------------------------------------------
(* Node resolution: translator.TranslateUpstreamNodes applied to one       *)
(* Endpoints object under one content of the service lister                *)

\* number of subsets of an Endpoints object
MaxSubsets == 2

_defaultWeight == 100

\* ServicePort / EndpointPort
NamedPort(name, port) == [Name |-> name, Port |-> port]

\* svc.Spec.Ports of the service the lister returns
ServicePortLists ==
    {<<>>,
     <<NamedPort("http", 80)>>,
     <<NamedPort("http", 80), NamedPort("https", 443)>>,
     <<NamedPort("https", 443), NamedPort("http", 443)>>}

\* the port numbers asked for
RequestedPorts == {80, 443, 8080}

\* subset.Ports
EndpointPortLists ==
    {<<>>,
     <<NamedPort("http", 8080)>>,
     <<NamedPort("https", 8443)>>,
     <<NamedPort("https", 8443), NamedPort("http", 8080)>>,
     <<NamedPort("http", 8080), NamedPort("http", 9090)>>}

\* subset.Addresses
AddressLists ==
    {<<>>, <<"10.0.0.1">>, <<"10.0.0.2", "10.0.0.1">>}

EndpointSubsets ==
    [Ports : EndpointPortLists, Addresses : AddressLists]

\* the sequences over S of length at most n
RECURSIVE SeqsUpTo(_, _)
SeqsUpTo(S, n) ==
    IF n = 0 THEN {<<>>}
    ELSE SeqsUpTo(S, n - 1) \cup
         {Append(q, x) : q \in SeqsUpTo(S, n - 1), x \in S}

\* the service the lister returns (Nil: not found), the Endpoints object
\* and the port
NodeInputs ==
    [svc : {Nil} \cup {[Ports |-> ps] : ps \in ServicePortLists},
     Subsets : SeqsUpTo(EndpointSubsets, MaxSubsets),
     port : RequestedPorts]

\* the first port of a list with the given number, Nil if there is none
RECURSIVE FindServicePort(_, _)
FindServicePort(ports, port) ==
    IF ports = <<>> THEN Nil
    ELSE IF Head(ports).Port = port THEN Head(ports)
    ELSE FindServicePort(Tail(ports), port)

\* the first port of a list with the given name, Nil if there is none
RECURSIVE FindEndpointPort(_, _)
FindEndpointPort(ports, name) ==
    IF ports = <<>> THEN Nil
    ELSE IF Head(ports).Name = name THEN Head(ports)
    ELSE FindEndpointPort(Tail(ports), name)

\* the loop over endpoints.Subsets: the nodes appended for each subset
RECURSIVE SubsetNodes(_, _)
SubsetNodes(subsets, name) ==
    IF subsets = <<>> THEN <<>>
    ELSE LET subset == Head(subsets)
             epPort == FindEndpointPort(subset.Ports, name)
             own == IF epPort = Nil THEN <<>>
                    ELSE [i \in 1..Len(subset.Addresses) |->
                             [IP |-> subset.Addresses[i],
                              Port |-> epPort.Port,
                              Weight |-> _defaultWeight]]
         IN  own \o SubsetNodes(Tail(subsets), name)

\* TranslateUpstreamNodes that fails when no subset has the port
TranslateUpstreamNodes_NoNodesIsError(in) ==
    IF in.svc = Nil
    THEN [err |-> TRUE, field |-> "service", nodes |-> Nil]
    ELSE LET svcPort == FindServicePort(in.svc.Ports, in.port)
         IN  IF svcPort = Nil \/ SubsetNodes(in.Subsets, svcPort.Name) = <<>>
             THEN [err |-> TRUE, field |-> "service.spec.ports",
                   nodes |-> Nil]
             ELSE [err |-> FALSE, field |-> "",
                   nodes |-> SubsetNodes(in.Subsets, svcPort.Name)]

\* translator.TranslateUpstreamNodes: [err, field, nodes]
TranslateUpstreamNodes(in) ==
    IF in.svc = Nil
    THEN [err |-> TRUE, field |-> "service", nodes |-> Nil]
    ELSE LET svcPort == FindServicePort(in.svc.Ports, in.port)
         IN  IF svcPort = Nil
             THEN [err |-> TRUE, field |-> "service.spec.ports",
                   nodes |-> Nil]
             ELSE [err |-> FALSE, field |-> "",
                   nodes |-> SubsetNodes(in.Subsets, svcPort.Name)]

InitNodes ==
    /\ controller = "nodes"
    /\ first = 10 - 2
    /\ clock = first
    /\ secrets = [r \in SecretRefs |-> PayloadOf(r)]
    /\ tlsCache = [k \in TlsKeys |-> Nil]
    /\ tlsQueue = EmptyQueue
    /\ tlsPc = "get"
    /\ tlsObj = Nil
    /\ tlsErr = FALSE
    /\ secretSSLMap = <<>>
    /\ apisix = <<>>
    /\ syncLog = NoLog
    /\ lastSync = [k \in TlsKeys |-> Nil]
    /\ upsCache = [k \in UpsKeys |-> Nil]
    /\ upsQueue = EmptyQueue
    /\ upsPc = "get"
    /\ upsObj = Nil
    /\ upsGateway = {}
    /\ upsLog = NoUpsLog
    /\ trIn \in NodeInputs
    /\ trOut = Nil
    /\ runPc = "started"
    /\ stop = FALSE
    /\ synced = Informers
    /\ bucketOf = <<>>
    /\ sslMaps = <<>>
    /\ calls = <<>>

\* t.TranslateUpstreamNodes(endpoints, port)
TranslateUpstreamNodesCalled ==
    /\ controller = "nodes"
    /\ trOut = Nil
    /\ trOut' = TranslateUpstreamNodes(trIn)
    /\ UNCHANGED <<controller, first, clock, tlsVars, upsVars, trIn>>
    /\ UNCHANGED runVars
    /\ UNCHANGED idxVars

NextNodes == TranslateUpstreamNodesCalled

SpecNodes == InitNodes /\ [][NextNodes]_vars

---------------------------------------------------------------------------
(* Upstream resolution: NewTranslator, then translator.TranslateUpstream   *)
(* applied to one namespace/name/port under one content of the listers     *)

\* EndpointMode
EndpointsOnly == 0
EndpointSliceOnly == 1

\* the values the EndpointMode option of a deployment may carry
EndpointModes == {EndpointsOnly, EndpointSliceOnly, 2}

\* what the Endpoints lister returns for the name (Nil: an error)
EndpointsObjects ==
    {Nil,
     [Subsets |-> <<>>],
     [Subsets |-> <<[Ports |-> <<NamedPort("http", 8080)>>,
                     Addresses |-> <<"10.0.0.1">>]>>],
     [Subsets |-> <<[Ports |-> <<NamedPort("https", 8443)>>,
                     Addresses |-> <<"10.0.0.3">>],
                    [Ports |-> <<NamedPort("http", 8080)>>,
                     Addresses |-> <<"10.0.0.2", "10.0.0.1">>]>>]}

\* what the EndpointSlice lister returns for the name (Nil: an error)
EndpointSlices ==
    {Nil,
     [Ports |-> <<NamedPort("https", 8443), NamedPort("http", 8081)>>,
      Endpoints |-> <<[Addresses |-> <<"10.0.1.1", "10.0.1.2">>],
                      [Addresses |-> <<"10.0.1.3">>]>>]}

\* the services the lister returns for the name (Nil: not found)
UpstreamServices ==
    {Nil,
     [Ports |-> <<NamedPort("http", 80)>>],
     [Ports |-> <<NamedPort("http", 80), NamedPort("https", 443)>>]}

\* ApisixUpstreamConfig: the declared settings, Nil where none is declared
UpstreamConfig(scheme, lb, hc, retries) ==
    [Scheme |-> scheme, LoadBalancer |-> lb, HealthCheck |-> hc,
     Retries |-> retries]

PlainConfig == UpstreamConfig("", Nil, Nil, 0)
GrpcConfig == UpstreamConfig("grpc", [Type |-> "chash"], Nil, 0)
EwmaConfig ==
    UpstreamConfig("http", [Type |-> "ewma"], [Kind |-> "active"], 3)
BadSchemeConfig == UpstreamConfig("ftp", [Type |-> "random"], Nil, 0)
BadRetriesConfig == UpstreamConfig("grpc", Nil, Nil, 0 - 1)

\* ApisixUpstreamPortLevelSettings
PortLevelSetting(port, config) == [Port |-> port, Config |-> config]

\* au.Spec.PortLevelSettings
PortLevelSettingLists ==
    {<<>>,
     <<PortLevelSetting(80, GrpcConfig)>>,
     <<PortLevelSetting(443, EwmaConfig), PortLevelSetting(80, GrpcConfig)>>,
     <<PortLevelSetting(80, EwmaConfig), PortLevelSetting(80, GrpcConfig)>>,
     <<PortLevelSetting(443, GrpcConfig), PortLevelSetting(443, PlainConfig)>>,
     <<PortLevelSetting(80, BadSchemeConfig),
       PortLevelSetting(80, PlainConfig)>>,
     <<PortLevelSetting(8080, BadRetriesConfig),
       PortLevelSetting(80, EwmaConfig)>>}

\* au.Spec of the ApisixUpstream objects of the cluster
ApisixUpstreamSpecs ==
    [Config : {PlainConfig, GrpcConfig, BadSchemeConfig, BadRetriesConfig},
     PortLevelSettings : PortLevelSettingLists]

\* what ApisixUpstreamLister...Get returns: the object, a not-found error
\* or another error
ApisixUpstreamResults ==
    {[err |-> "notFound", au |-> Nil], [err |-> "other", au |-> Nil]}
        \cup {[err |-> "", au |-> a] : a \in ApisixUpstreamSpecs}

\* the option of the translator, the content of the listers for the
\* namespace and name, and the port
UpstreamInputs ==
    [mode : EndpointModes,
     endpoints : EndpointsObjects,
     endpointSlice : EndpointSlices,
     svc : UpstreamServices,
     port : RequestedPorts,
     lookup : ApisixUpstreamResults]

\* apisixv1.NewDefaultUpstream
NewDefaultUpstream ==
    [Scheme |-> "http", Type |-> "roundrobin", Checks |-> Nil,
     Retries |-> 0, Nodes |-> <<>>]

\* the loop over endpoints.Endpoints of a slice: the nodes appended for
\* each endpoint
RECURSIVE SliceNodes(_, _, _)
SliceNodes(endpoints, ports, name) ==
    IF endpoints = <<>> THEN <<>>
    ELSE LET ep == Head(endpoints)
             epPort == FindEndpointPort(ports, name)
             own == IF epPort = Nil THEN <<>>
                    ELSE [i \in 1..Len(ep.Addresses) |->
                             [IP |-> ep.Addresses[i],
                              Port |-> epPort.Port,
                              Weight |-> _defaultWeight]]
         IN  own \o SliceNodes(Tail(endpoints), ports, name)

\* translator.TranslateUpstreamNodesFromEndpointSlice: [err, field, nodes]
TranslateUpstreamNodesFromEndpointSlice(in) ==
    IF in.svc = Nil
    THEN [err |-> TRUE, field |-> "service", nodes |-> Nil]
    ELSE LET svcPort == FindServicePort(in.svc.Ports, in.port)
         IN  IF svcPort = Nil
             THEN [err |-> TRUE, field |-> "service.spec.ports",
                   nodes |-> Nil]
             ELSE [err |-> FALSE, field |-> "",
                   nodes |-> SliceNodes(in.slice.Endpoints, in.slice.Ports,
                                        svcPort.Name)]

\* the four translations of TranslateUpstreamConfig: each sets its part of
\* the upstream or fails with its own field
translateUpstreamScheme(scheme, ups) ==
    IF scheme = "" THEN [err |-> FALSE, field |-> "", ups |-> ups]
    ELSE IF scheme \in {"http", "grpc"}
    THEN [err |-> FALSE, field |-> "", ups |-> [ups EXCEPT !.Scheme = scheme]]
    ELSE [err |-> TRUE, field |-> "scheme", ups |-> ups]

translateUpstreamLoadBalancer(lb, ups) ==
    IF lb = Nil THEN [err |-> FALSE, field |-> "", ups |-> ups]
    ELSE IF lb.Type \in {"roundrobin", "chash", "ewma", "least_conn"}
    THEN [err |-> FALSE, field |-> "", ups |-> [ups EXCEPT !.Type = lb.Type]]
    ELSE [err |-> TRUE, field |-> "loadbalancer.type", ups |-> ups]

translateUpstreamHealthCheck(hc, ups) ==
    IF hc = Nil THEN [err |-> FALSE, field |-> "", ups |-> ups]
    ELSE IF hc.Kind \in {"active", "passive"}
    THEN [err |-> FALSE, field |-> "", ups |-> [ups EXCEPT !.Checks = hc]]
    ELSE [err |-> TRUE, field |-> "healthCheck", ups |-> ups]

translateUpstreamRetriesAndTimeout(retries, ups) ==
    IF retries < 0 THEN [err |-> TRUE, field |-> "retries", ups |-> ups]
    ELSE [err |-> FALSE, field |-> "", ups |-> [ups EXCEPT !.Retries = retries]]

\* translator.TranslateUpstreamConfig: [err, field, ups]
TranslateUpstreamConfig(au) ==
    LET s == translateUpstreamScheme(au.Scheme, NewDefaultUpstream)
    IN  IF s.err THEN [err |-> TRUE, field |-> s.field, ups |-> Nil]
        ELSE
        LET l == translateUpstreamLoadBalancer(au.LoadBalancer, s.ups)
        IN  IF l.err THEN [err |-> TRUE, field |-> l.field, ups |-> Nil]
            ELSE
            LET h == translateUpstreamHealthCheck(au.HealthCheck, l.ups)
            IN  IF h.err THEN [err |-> TRUE, field |-> h.field, ups |-> Nil]
                ELSE
                LET r == translateUpstreamRetriesAndTimeout(au.Retries, h.ups)
                IN  IF r.err
                    THEN [err |-> TRUE, field |-> r.field, ups |-> Nil]
                    ELSE [err |-> FALSE, field |-> "", ups |-> r.ups]

\* the loop over au.Spec.PortLevelSettings: the configuration of the first
\* setting with the port, upsCfg if there is none
RECURSIVE PortLevelConfig(_, _, _)
PortLevelConfig(settings, port, upsCfg) ==
    IF settings = <<>> THEN upsCfg
    ELSE IF Head(settings).Port = port THEN Head(settings).Config
    ELSE PortLevelConfig(Tail(settings), port, upsCfg)

\* the nodes part of TranslateUpstream: [panic, err, field, nodes]
ResolveNodes(in) ==
    IF in.mode = EndpointSliceOnly
    THEN IF in.endpointSlice = Nil
         THEN [panic |-> FALSE, err |-> TRUE, field |-> "endpointslice",
               nodes |-> Nil]
         ELSE LET r == TranslateUpstreamNodesFromEndpointSlice(
                           [svc |-> in.svc, slice |-> in.endpointSlice,
                            port |-> in.port])
              IN  [panic |-> FALSE, err |-> r.err, field |-> r.field,
                   nodes |-> r.nodes]
    ELSE IF in.mode = EndpointsOnly
    THEN IF in.endpoints = Nil
         THEN [panic |-> FALSE, err |-> TRUE, field |-> "endpoints",
               nodes |-> Nil]
         ELSE LET r == TranslateUpstreamNodes(
                           [svc |-> in.svc, Subsets |-> in.endpoints.Subsets,
                            port |-> in.port])
              IN  [panic |-> FALSE, err |-> r.err, field |-> r.field,
                   nodes |-> r.nodes]
    ELSE [panic |-> TRUE, err |-> FALSE, field |-> "", nodes |-> Nil]

\* the result of a call that returns an error
UpstreamError(field) ==
    [panic |-> FALSE, err |-> TRUE, field |-> field, ups |-> Nil]

\* the result of a call that returns an upstream
UpstreamOf(ups, nodes) ==
    [panic |-> FALSE, err |-> FALSE, field |-> "",
     ups |-> [ups EXCEPT !.Nodes = nodes]]

\* TranslateUpstream that returns the lister's not-found error
TranslateUpstream_NotFoundIsError(in) ==
    LET n == ResolveNodes(in)
    IN  IF n.panic
        THEN [panic |-> TRUE, err |-> FALSE, field |-> "", ups |-> Nil]
        ELSE IF n.err THEN UpstreamError(n.field)
        ELSE IF in.lookup.err # "" THEN UpstreamError("ApisixUpstream")
        ELSE
        LET upsCfg == PortLevelConfig(in.lookup.au.PortLevelSettings,
                                      in.port, in.lookup.au.Config)
            c == TranslateUpstreamConfig(upsCfg)
        IN  IF c.err THEN UpstreamError(c.field)
            ELSE UpstreamOf(c.ups, n.nodes)

\* TranslateUpstream that takes the last port-level setting with the port
TranslateUpstream_LastSetting(in) ==
    LET n == ResolveNodes(in)
    IN  IF n.panic
        THEN [panic |-> TRUE, err |-> FALSE, field |-> "", ups |-> Nil]
        ELSE IF n.err THEN UpstreamError(n.field)
        ELSE IF in.lookup.err = "notFound"
        THEN UpstreamOf(NewDefaultUpstream, n.nodes)
        ELSE IF in.lookup.err # "" THEN UpstreamError("ApisixUpstream")
        ELSE
        LET Reverse(s) == [i \in 1..Len(s) |-> s[Len(s) + 1 - i]]
            upsCfg == PortLevelConfig(
                          Reverse(in.lookup.au.PortLevelSettings),
                          in.port, in.lookup.au.Config)
            c == TranslateUpstreamConfig(upsCfg)
        IN  IF c.err THEN UpstreamError(c.field)
            ELSE UpstreamOf(c.ups, n.nodes)

\* translator.TranslateUpstream: [panic, err, field, ups]
TranslateUpstream(in) ==
    LET n == ResolveNodes(in)
    IN  IF n.panic
        THEN [panic |-> TRUE, err |-> FALSE, field |-> "", ups |-> Nil]
        ELSE IF n.err THEN UpstreamError(n.field)
        ELSE IF in.lookup.err = "notFound"
        THEN UpstreamOf(NewDefaultUpstream, n.nodes)
        ELSE IF in.lookup.err # "" THEN UpstreamError("ApisixUpstream")
        ELSE
        LET upsCfg == PortLevelConfig(in.lookup.au.PortLevelSettings,
                                      in.port, in.lookup.au.Config)
            c == TranslateUpstreamConfig(upsCfg)
        IN  IF c.err THEN UpstreamError(c.field)
            ELSE UpstreamOf(c.ups, n.nodes)

\* the options are chosen and no translator exists yet
InitUpstream ==
    /\ controller = "resolver"
    /\ first = 10 - 2
    /\ clock = first
    /\ secrets = [r \in SecretRefs |-> PayloadOf(r)]
    /\ tlsCache = [k \in TlsKeys |-> Nil]
    /\ tlsQueue = EmptyQueue
    /\ tlsPc = "get"
    /\ tlsObj = Nil
    /\ tlsErr = FALSE
    /\ secretSSLMap = <<>>
    /\ apisix = <<>>
    /\ syncLog = NoLog
    /\ lastSync = [k \in TlsKeys |-> Nil]
    /\ upsCache = [k \in UpsKeys |-> Nil]
    /\ upsQueue = EmptyQueue
    /\ upsPc = "get"
    /\ upsObj = Nil
    /\ upsGateway = {}
    /\ upsLog = NoUpsLog
    /\ trIn \in UpstreamInputs
    /\ trOut = Nil
    /\ runPc = "new"
    /\ stop = FALSE
    /\ synced = Informers
    /\ bucketOf = <<>>
    /\ sslMaps = <<>>
    /\ calls = <<>>

\* NewTranslator(opts): returns a translator for whatever the options hold
NewTranslator ==
    /\ controller = "resolver"
    /\ runPc = "new"
    /\ runPc' = "constructed"
    /\ UNCHANGED <<controller, first, clock, tlsVars, upsVars, trVars>>
    /\ UNCHANGED <<stop, synced>>
    /\ UNCHANGED idxVars

\* t.TranslateUpstream(namespace, name, port)
TranslateUpstreamCalled ==
    /\ controller = "resolver"
    /\ runPc = "constructed"
    /\ trOut = Nil
    /\ trOut' = TranslateUpstream(trIn)
    /\ UNCHANGED <<controller, first, clock, tlsVars, upsVars, trIn>>
    /\ UNCHANGED runVars
    /\ UNCHANGED idxVars

NextUpstream ==
    \/ NewTranslator
    \/ TranslateUpstreamCalled

SpecUpstream == InitUpstream /\ [][NextUpstream]_vars

---------------------------------------------------------------------------
(* Vocabulary of the properties                                            *)

\* a step in which the TLS worker runs sync on the item it holds
TlsSyncStep == tlsPc = "sync" /\ tlsPc' = "handle"

\* a step in which the TLS worker runs Done and handleSyncErr
TlsHandleStep == tlsPc = "handle" /\ tlsPc' = "get"

\* a step in which the upstream worker runs syncHandler
UpsSyncStep == upsPc = "sync" /\ upsPc' = "finish"

\* a step in which the upstream worker ends processNextWorkItem
UpsFinishStep == upsPc = "finish" /\ upsPc' = "get"

\* the item is in no part of the queue and has no retry state
Forgotten(q, item) ==
    item \notin Pending(q) /\ item.id \notin DOMAIN q.failures

\* the item went from the worker to the delaying queue, counted once more
\* by the rate limiter
Requeued(q, qAfter, item) ==
    /\ item \notin qAfter.processing
    /\ \E i \in 1..Len(qAfter.waiting) : qAfter.waiting[i].item = item
    /\ NumRequeues(qAfter, item) = NumRequeues(q, item) + 1

\* the ssl ID of the binding with a key
SslID(key) == key[1] \o "_" \o key[2]

\* the secret identity a binding refers to
SecretKeyOf(tls) == tls.Secret.Namespace \o "_" \o tls.Secret.Name

SecretKeys == {r.Namespace \o "_" \o r.Name : r \in SecretRefs}

SslIDs == {SslID(k) : k \in TlsKeys}

\* the entry of the index for a secret identity and an ssl ID, Nil if none
Entry(m, s, i) ==
    IF s \in DOMAIN m /\ i \in DOMAIN m[s] THEN m[s][i] ELSE Nil

\* the binding a sync of the held item works on: the tombstone for a
\* Delete, the cached object otherwise
Binding == 
    IF tlsObj.Type = EventDelete THEN tlsObj.Tombstone
    ELSE tlsCache[tlsObj.Object]

\* the held item gets as far as the translation
ReachesTranslation ==
    IF tlsObj.Type = EventDelete THEN tlsCache[tlsObj.Object] = Nil
    ELSE tlsCache[tlsObj.Object] # Nil

\* the secret a binding refers to resolves with a certificate and a key
SecretResolves(tls) ==
    /\ secrets[tls.Secret] # Nil
    /\ {"cert", "key"} \subseteq DOMAIN secrets[tls.Secret]

---------------------------------------------------------------------------
(* The secret index under concurrency: two executions of syncSecretSSL,    *)
(* each a sequence of sync.Map operations on the outer map and on the      *)
(* bucket it holds a pointer to.  The single worker of the controller runs *)
(* one execution at a time, which is why the behaviours of Spec update     *)
(* secretSSLMap in one step; here the executions interleave.               *)

\* the callers of syncSecretSSL
Callers == {1, 2}

\* the Ssl objects the callers hand over
SslOf(id) ==
    [ID |-> id, Snis |-> <<"api6.com">>, Cert |-> "root", Key |-> "123456",
     Status |-> 1]

\* the arguments of a call: key, ssl, event
CallArgs ==
    [key : SecretKeys,
     ssl : {SslOf(SslID(<<"ns1", "foo">>)), SslOf(SslID(<<"ns1", "bar">>))},
     event : {EventAdd, EventUpdate, EventDelete}]

\* the outer map read through its pointers: secretKey -> (ID -> Ssl)
Deref(outer, maps) == [k \in DOMAIN outer |-> maps[outer[k]]]

\* new(sync.Map): an address no bucket has
NewAddress(maps) == Cardinality(DOMAIN maps)

\* the contents of the index when the calls start: no bucket, or a bucket
\* for ns1_cert that is empty or holds the ID of another binding
FirstBuckets ==
    {<<>>,
     [a \in {0} |-> <<>>],
     [a \in {0} |-> BucketStore(<<>>, SslID(<<"ns2", "foo">>),
                                SslOf(SslID(<<"ns2", "foo">>)))]}

InitIndex ==
    /\ controller = "index"
    /\ first = 10 - 2
    /\ clock = first
    /\ secrets = [r \in SecretRefs |-> PayloadOf(r)]
    /\ tlsCache = [k \in TlsKeys |-> Nil]
    /\ tlsQueue = EmptyQueue
    /\ tlsPc = "get"
    /\ tlsObj = Nil
    /\ tlsErr = FALSE
    /\ apisix = <<>>
    /\ syncLog = NoLog
    /\ lastSync = [k \in TlsKeys |-> Nil]
    /\ upsCache = [k \in UpsKeys |-> Nil]
    /\ upsQueue = EmptyQueue
    /\ upsPc = "get"
    /\ upsObj = Nil
    /\ upsGateway = {}
    /\ upsLog = NoUpsLog
    /\ trIn = Nil
    /\ trOut = Nil
    /\ runPc = "started"
    /\ stop = FALSE
    /\ synced = Informers
    /\ sslMaps \in FirstBuckets
    /\ bucketOf = [k \in {"ns1_cert"} \cap {"ns1_cert" : a \in DOMAIN sslMaps}
                      |-> 0]
    /\ secretSSLMap = Deref(bucketOf, sslMaps)
    /\ calls \in [Callers -> {[pc |-> "load", key |-> a.key, ssl |-> a.ssl,
                               event |-> a.event, sslMap |-> 0 - 1] :
                                 a \in CallArgs}]

\* what a step of a call leaves as it is
CallFrame ==
    /\ UNCHANGED <<controller, first, clock, secrets, tlsCache, tlsQueue,
                   tlsPc, tlsObj, tlsErr, apisix, syncLog, lastSync>>
    /\ UNCHANGED upsVars
    /\ UNCHANGED trVars
    /\ UNCHANGED runVars

\* syncSecretSSL: ssls, ok := c.controller.secretSSLMap.Load(key)
CallLoad(c) ==
    /\ controller = "index"
    /\ calls[c].pc = "load"
    /\ calls' = [calls EXCEPT ![c] =
                    IF @.key \in DOMAIN bucketOf
                    THEN [@ EXCEPT !.pc = "mutate",
                                   !.sslMap = bucketOf[calls[c].key]]
                    ELSE IF @.event # EventDelete
                    THEN [@ EXCEPT !.pc = "new"]
                    ELSE [@ EXCEPT !.pc = "done"]]
    /\ UNCHANGED <<bucketOf, sslMaps, secretSSLMap>>
    /\ CallFrame

\* syncSecretSSL: sslMap := new(sync.Map)
CallNew(c) ==
    /\ controller = "index"
    /\ calls[c].pc = "new"
    /\ LET a == NewAddress(sslMaps)
       IN  /\ sslMaps' = [x \in DOMAIN sslMaps \cup {a} |->
                             IF x = a THEN <<>> ELSE sslMaps[x]]
           /\ calls' = [calls EXCEPT ![c].pc = "mutate", ![c].sslMap = a]
    /\ UNCHANGED <<bucketOf, secretSSLMap>>
    /\ CallFrame

\* syncSecretSSL: sslMap.Delete(ssl.ID) or sslMap.Store(ssl.ID, ssl)
CallMutate(c) ==
    /\ controller = "index"
    /\ calls[c].pc = "mutate"
    /\ sslMaps' = [sslMaps EXCEPT ![calls[c].sslMap] =
                      IF calls[c].event = EventDelete
                      THEN BucketDelete(@, calls[c].ssl.ID)
                      ELSE BucketStore(@, calls[c].ssl.ID, calls[c].ssl)]
    /\ calls' = [calls EXCEPT ![c].pc = "store"]
    /\ secretSSLMap' = Deref(bucketOf, sslMaps')
    /\ UNCHANGED bucketOf
    /\ CallFrame

\* syncSecretSSL: c.controller.secretSSLMap.Store(key, sslMap)
CallStore(c) ==
    /\ controller = "index"
    /\ calls[c].pc = "store"
    /\ bucketOf' = MapStore(bucketOf, calls[c].key, calls[c].sslMap)
    /\ calls' = [calls EXCEPT ![c].pc = "done"]
    /\ secretSSLMap' = Deref(bucketOf', sslMaps)
    /\ UNCHANGED sslMaps
    /\ CallFrame

NextIndex ==
    \E c \in Callers :
        \/ CallLoad(c)
        \/ CallNew(c)
        \/ CallMutate(c)
        \/ CallStore(c)

SpecIndex == InitIndex /\ [][NextIndex]_vars

---------------------------------------------------------------------------
(* C1 *)

\* C1: when the TLS sync processes a Delete event whose key still resolves
\* in the lister, it returns success, translates nothing, leaves the secret
\* index and the gateway as they are, makes no gateway call and emits no
\* event; Done and handleSyncErr then forget the item: it is in no part of
\* the queue and has no retry state.
C1_StaleDeleteIsNoOp ==
    [][/\ (/\ TlsSyncStep
           /\ tlsObj.Type = EventDelete
           /\ tlsCache[tlsObj.Object] # Nil)
          => /\ tlsErr' = FALSE
             /\ syncLog'.input = Nil
             /\ syncLog'.ssl = Nil
             /\ secretSSLMap' = secretSSLMap
             /\ apisix' = apisix
             /\ syncLog'.call = "none"
             /\ syncLog'.event = "none"
       /\ (/\ TlsHandleStep
           /\ tlsObj.Type = EventDelete
           /\ syncLog.found)
          => Forgotten(tlsQueue', tlsObj)]_vars

\* a Delete event was synced while its key resolved
C1_Witness ==
    /\ tlsPc = "handle"
    /\ tlsObj.Type = EventDelete
    /\ syncLog.found
    /\ tlsCache[tlsObj.Object] # Nil

---------------------------------------------------------------------------
(* C2 *)

\* C2: when the upstream syncHandler has processed a DELETE item whose key
\* resolved in the cache, it has returned success and made no gateway
\* Remove call, whatever the versions of the cached object and of the
\* object carried in the item.
C2_StaleDeleteDiscarded ==
    (/\ upsPc = "finish"
     /\ upsObj.Ope = DELETE
     /\ upsLog.found)
    => (upsLog.call = "none" /\ ~upsLog.err)

---------------------------------------------------------------------------
(* C3 *)

\* C3: in both controllers, an Add or Update item whose key the lister
\* reports not found makes the reconcile return success with no gateway
\* call, no change of the gateway or of the secret index and no event, and
\* the item is then forgotten: in no part of the queue, no retry state.
C3_NotFoundIsSuccess ==
    [][/\ (/\ TlsSyncStep
           /\ tlsObj.Type # EventDelete
           /\ tlsCache[tlsObj.Object] = Nil)
          => /\ tlsErr' = FALSE
             /\ secretSSLMap' = secretSSLMap
             /\ apisix' = apisix
             /\ syncLog'.call = "none"
             /\ syncLog'.event = "none"
       /\ (/\ TlsHandleStep
           /\ tlsObj.Type # EventDelete
           /\ ~syncLog.found)
          => Forgotten(tlsQueue', tlsObj)
       /\ (/\ UpsSyncStep
           /\ upsObj.Ope # DELETE
           /\ upsCache[upsObj.Key] = Nil)
          => /\ upsLog'.err = FALSE
             /\ upsLog'.call = "none"
             /\ upsGateway' = upsGateway
       /\ (/\ UpsFinishStep
           /\ upsObj.Ope # DELETE
           /\ ~upsLog.found)
          => Forgotten(upsQueue', upsObj)]_vars

\* the TLS worker synced an Add event whose key was not found
C3_Witness ==
    /\ tlsPc = "handle"
    /\ tlsObj.Type = EventAdd
    /\ ~syncLog.found
    /\ ~tlsErr

\* the upstream worker synced an ADD item whose key was not found
C3_WitnessUpstream ==
    /\ upsPc = "finish"
    /\ upsObj.Ope = ADD
    /\ ~upsLog.found
    /\ ~upsLog.err

---------------------------------------------------------------------------
(* C4 *)

\* C4: when the translation of the binding a TLS sync works on fails
\* because its secret does not resolve, the translation yields no SSL
\* object and an error, the secret index and the gateway stay as they are,
\* no gateway call is made, a Warning event is emitted and sync returns the
\* error; Done and handleSyncErr then re-add the item rate limited.
C4_TranslationFailure ==
    [][/\ (/\ TlsSyncStep
           /\ ReachesTranslation
           /\ ~SecretResolves(Binding))
          => /\ TranslateSSL(Binding).err
             /\ TranslateSSL(Binding).ssl = Nil
             /\ syncLog'.ssl = Nil
             /\ secretSSLMap' = secretSSLMap
             /\ apisix' = apisix
             /\ syncLog'.call = "none"
             /\ syncLog'.event = EventTypeWarning
             /\ tlsErr' = TRUE
       /\ (/\ TlsHandleStep
           /\ syncLog.outcome = "translateFailed")
          => Requeued(tlsQueue, tlsQueue', tlsObj)]_vars

\* an Add event was synced while the secret of its binding was missing
C4_Witness ==
    /\ tlsPc = "handle"
    /\ tlsObj.Type = EventAdd
    /\ syncLog.input # Nil
    /\ syncLog.ssl = Nil
    /\ tlsErr

---------------------------------------------------------------------------
(* C5 *)

\* the text of the byte strings of the payloads
TextOf(bs) ==
    CASE bs = <<114, 111, 111, 116>> -> "root"
      [] bs = <<116, 111, 111, 114>> -> "toor"
      [] bs = <<49, 50, 51, 52, 53, 54>> -> "123456"
      [] bs = <<54, 53, 52, 51, 50, 49>> -> "654321"

\* C5: translating a binding ns/n with host list H whose secret resolves
\* with certificate c and key k yields, without error, the SSL object with
\* ID ns_n, server names H, certificate c and private key k.
C5_TranslateSSL ==
    (trOut # Nil /\ SecretResolves(trIn))
    => /\ ~trOut.err
       /\ trOut.ssl # Nil
       /\ trOut.ssl.ID = trIn.Namespace \o "_" \o trIn.Name
       /\ trOut.ssl.Snis = trIn.Hosts
       /\ trOut.ssl.Cert = TextOf(secrets[trIn.Secret].cert)
       /\ trOut.ssl.Key = TextOf(secrets[trIn.Secret].key)

\* the binding helm/foo with host api6.com and a secret holding "root" and
\* "123456" was translated
C5_Witness ==
    /\ trOut # Nil
    /\ trIn.Namespace = "helm" /\ trIn.Name = "foo"
    /\ trIn.Hosts = <<"api6.com">>
    /\ secrets[trIn.Secret] = GoodSecret
    /\ trOut.ssl = [ID |-> "helm_foo", Snis |-> <<"api6.com">>,
                    Cert |-> "root", Key |-> "123456", Status |-> 1]

---------------------------------------------------------------------------
(* C6 *)

\* C6: when the TLS sync has processed a Delete event whose key the lister
\* reported absent, it has worked on the tombstone, the bucket of the
\* tombstone's secret identity does not hold the tombstone's ID and the
\* gateway delete for that ID has been issued, in every state of the secret
\* lister.
C6_DeleteUsesTombstone ==
    (/\ tlsPc = "handle"
     /\ tlsObj.Type = EventDelete
     /\ ~syncLog.found)
    => /\ syncLog.input = tlsObj.Tombstone
       /\ Entry(secretSSLMap, SecretKeyOf(tlsObj.Tombstone),
                SslID(tlsObj.Object)) = Nil
       /\ syncLog.call = "delete"
       /\ syncLog.ssl # Nil
       /\ syncLog.ssl.ID = SslID(tlsObj.Object)

---------------------------------------------------------------------------
(* C7 *)

\* two bindings whose latest reconciles were upserts that synced, under
\* the same secret identity, are both in the bucket of that identity
Coexist ==
    \A k1, k2 \in TlsKeys :
        (/\ k1 # k2
         /\ lastSync[k1] # Nil /\ lastSync[k1].Type # EventDelete
         /\ lastSync[k2] # Nil /\ lastSync[k2].Type # EventDelete
         /\ lastSync[k1].secretKey = lastSync[k2].secretKey)
        => /\ lastSync[k1].secretKey \in DOMAIN secretSSLMap
           /\ {SslID(k1), SslID(k2)} \subseteq
                  DOMAIN secretSSLMap[lastSync[k1].secretKey]

\* a step changes no entry of the index but the one of the ssl ID and the
\* secret identity of the binding a sync works on, and removes no bucket;
\* a Delete that gets to the index leaves its own ID out of the bucket
OnlyOwnEntry ==
    /\ \A s \in SecretKeys, i \in SslIDs :
          Entry(secretSSLMap', s, i) # Entry(secretSSLMap, s, i)
          => /\ TlsSyncStep
             /\ ReachesTranslation
             /\ i = SslID(tlsObj.Object)
             /\ s = SecretKeyOf(Binding)
    /\ DOMAIN secretSSLMap \subseteq DOMAIN secretSSLMap'
    /\ DOMAIN secretSSLMap' \subseteq SecretKeys
    /\ \A s \in DOMAIN secretSSLMap' : DOMAIN secretSSLMap'[s] \subseteq SslIDs
    /\ (/\ TlsSyncStep
        /\ tlsObj.Type = EventDelete
        /\ syncLog'.ssl # Nil)
       => Entry(secretSSLMap', SecretKeyOf(Binding),
                SslID(tlsObj.Object)) = Nil

\* C7: two bindings with different IDs that refer to the same secret
\* identity are both in that identity's one bucket after both were
\* upserted, and a Delete of one removes only its own ID: every other
\* entry of the bucket and every other bucket stay as they are.
C7_SiblingsKept ==
    []Coexist /\ [][OnlyOwnEntry]_vars

\* a Delete removed its ID from a bucket in which another ID remains
C7_Witness ==
    /\ tlsPc = "handle"
    /\ tlsObj.Type = EventDelete
    /\ syncLog.ssl # Nil
    /\ syncLog.secretKey \in DOMAIN secretSSLMap
    /\ \E i \in DOMAIN secretSSLMap[syncLog.secretKey] : i # syncLog.ssl.ID

---------------------------------------------------------------------------
(* C8 *)

\* C8: for every binding whose latest reconcile was an Add or Update that
\* ended in a successful gateway sync, the bucket of the secret identity
\* of that reconcile holds, under the binding's ID, the SSL object that
\* reconcile translated (buckets are maps: one entry per ID).
C8_SyncedIsIndexed ==
    \A k \in TlsKeys :
        (lastSync[k] # Nil /\ lastSync[k].Type # EventDelete)
        => /\ lastSync[k].ssl.ID = SslID(k)
           /\ Entry(secretSSLMap, lastSync[k].secretKey, SslID(k))
                  = lastSync[k].ssl

\* a binding was synced by an Update that moved it to another secret
C8_Witness ==
    \E k \in TlsKeys :
        /\ lastSync[k] # Nil
        /\ lastSync[k].Type = EventUpdate
        /\ \E s \in DOMAIN secretSSLMap :
              s # lastSync[k].secretKey /\ SslID(k) \in DOMAIN secretSSLMap[s]

---------------------------------------------------------------------------
(* C9 *)

\* C9: when the TLS sync of an Add or Update event has translated its
\* binding and returned the error of the gateway sync, the index maps the
\* binding's secret identity and ID to the newly translated SSL object.
C9_IndexBeforeGateway ==
    (/\ tlsPc = "handle"
     /\ tlsObj.Type # EventDelete
     /\ syncLog.ssl # Nil
     /\ tlsErr)
    => /\ syncLog.call # "none"
       /\ syncLog.ssl.ID = SslID(tlsObj.Object)
       /\ syncLog.secretKey = SecretKeyOf(syncLog.input)
       /\ Entry(secretSSLMap, SecretKeyOf(syncLog.input),
                SslID(tlsObj.Object)) = syncLog.ssl

\* the gateway sync of an Update failed after a translation to an object
\* the gateway does not hold
C9_Witness ==
    /\ tlsPc = "handle"
    /\ tlsObj.Type = EventUpdate
    /\ syncLog.ssl # Nil
    /\ tlsErr
    /\ Entry([g \in {"apisix"} |-> apisix], "apisix", syncLog.ssl.ID)
           # syncLog.ssl

---------------------------------------------------------------------------
(* C10 *)

\* C10: in both controllers the step that ends the processing of a
\* dequeued item marks it done and either forgets it, exactly when the
\* reconcile returned success, or re-adds it rate limited, exactly when
\* the reconcile returned an error; a TLS sync that made its gateway call
\* emitted a Warning event when the call failed and a Normal event when it
\* succeeded.
C10_ForgetOrRequeue ==
    [][/\ TlsHandleStep
          => /\ tlsObj \notin tlsQueue'.processing
             /\ ~tlsErr <=> Forgotten(tlsQueue', tlsObj)
             /\ tlsErr <=> Requeued(tlsQueue, tlsQueue', tlsObj)
       /\ UpsFinishStep
          => /\ upsObj \notin upsQueue'.processing
             /\ ~upsLog.err <=> Forgotten(upsQueue', upsObj)
             /\ upsLog.err <=> Requeued(upsQueue, upsQueue', upsObj)
       /\ (TlsSyncStep /\ syncLog'.call # "none")
          => /\ tlsErr' => syncLog'.event = EventTypeWarning
             /\ ~tlsErr' => syncLog'.event = EventTypeNormal]_vars

\* a TLS item whose gateway sync failed is about to be handled
C10_Witness ==
    /\ tlsPc = "handle"
    /\ syncLog.call # "none"
    /\ tlsErr
    /\ syncLog.event = EventTypeWarning

\* an upstream item whose gateway call failed is about to be finished
C10_WitnessUpstream ==
    /\ upsPc = "finish"
    /\ upsLog.call # "none"
    /\ upsLog.err

---------------------------------------------------------------------------
(* C11 *)

\* the waiting add of an item, Nil if the item is not waiting
WaitingAdd(q, item) ==
    IF \E i \in 1..Len(q.waiting) : q.waiting[i].item = item
    THEN q.waiting[CHOOSE i \in 1..Len(q.waiting) : q.waiting[i].item = item]
    ELSE Nil

\* a step drops an item from a queue only when the worker ends its
\* processing after a reconcile that returned success
DroppedOnlyOnSuccess ==
    /\ \A item \in Pending(tlsQueue) :
          item \notin Pending(tlsQueue')
          => (TlsHandleStep /\ item = tlsObj /\ ~tlsErr)
    /\ \A item \in Pending(upsQueue) :
          item \notin Pending(upsQueue')
          => (UpsFinishStep /\ item = upsObj /\ ~upsLog.err)

\* C11: in both controllers, whatever the number of failures the rate
\* limiter has counted for an item, a reconcile of it that returns an error
\* is followed by a rate-limited re-add (the item waits with the rate
\* limiter's delay and is counted once more), and no step removes an item
\* from the queue except the end of a reconcile that returned success.
C11_RetriedWithoutLimit ==
    [][/\ (TlsHandleStep /\ tlsErr)
          => /\ Requeued(tlsQueue, tlsQueue', tlsObj)
             /\ WaitingAdd(tlsQueue', tlsObj).delay =
                    When(tlsQueue, tlsObj).delay
       /\ (UpsFinishStep /\ upsLog.err)
          => /\ Requeued(upsQueue, upsQueue', upsObj)
             /\ WaitingAdd(upsQueue', upsObj).delay =
                    When(upsQueue, upsObj).delay
       /\ DroppedOnlyOnSuccess]_vars

\* a TLS item has failed more often than the fast regime lasts and waits
\* for its next attempt
C11_Witness ==
    \E i \in 1..Len(tlsQueue.waiting) :
        /\ NumRequeues(tlsQueue, tlsQueue.waiting[i].item) > maxFastAttempts
        /\ tlsQueue.waiting[i].delay = slowDelay

\* an upstream item has failed more often than the fast regime lasts and
\* waits for its next attempt
C11_WitnessUpstream ==
    \E i \in 1..Len(upsQueue.waiting) :
        /\ NumRequeues(upsQueue, upsQueue.waiting[i].item) > maxFastAttempts
        /\ upsQueue.waiting[i].delay = slowDelay

---------------------------------------------------------------------------
(* C12 *)

\* the TLS worker takes its steps and the delaying queue delivers
FairRetry ==
    /\ WF_vars(TlsDelayFires(RetryCap))
    /\ WF_vars(TlsGet)
    /\ WF_vars(TlsSync)
    /\ WF_vars(TlsHandle)

SpecLive == SpecRetry /\ FairRetry

\* a step in which the gateway call of a TLS sync fails
GatewayFails == TlsSyncStep /\ syncLog'.outcome = "syncFailed"

\* every waiting add is one the delaying queue still delivers
Deliverable ==
    \A i \in 1..Len(tlsQueue.waiting) :
        NumRequeues(tlsQueue, tlsQueue.waiting[i].item) <= RetryCap

\* the binding is in the cache and its secret resolves
Settled(k) == tlsCache[k] # Nil /\ SecretResolves(tlsCache[k])

\* the events of a key that the queue holds in any form or counts
EventsOf(k) ==
    {item \in Pending(tlsQueue) : item.Object = k}

\* the gateway holds the translation of the cached binding under its ID,
\* and no event of the key is queued, delayed, in flight or counted
Converged(k) ==
    /\ tlsCache[k] # Nil
    /\ SslID(k) \in DOMAIN apisix
    /\ apisix[SslID(k)] = TranslateSSL(tlsCache[k]).ssl
    /\ EventsOf(k) = {}
    /\ \A id \in DOMAIN tlsQueue.failures :
          \E item \in Pending(tlsQueue) : item.id = id

\* C12: under fairness of the TLS worker and of the delaying queue, if
\* delayed adds stay deliverable, the gateway call fails only finitely often
\* and from some point on the binding stays in the cache with its secret
\* resolving, then from some point on the gateway holds the SSL object of
\* that binding under its ID, no event of the binding is pending and the
\* rate limiter counts no item that is not pending.
C12_EventuallyConsistent ==
    (/\ []Deliverable
     /\ <>[][~GatewayFails]_vars
     /\ <>[]Settled(RetryKey))
    => <>[]Converged(RetryKey)

\* an Add or Update that had failed before was retried and its gateway
\* call succeeded: the gateway holds the translation of the cached binding
C12_Witness ==
    /\ tlsPc = "handle"
    /\ ~tlsErr
    /\ tlsObj.Type # EventDelete
    /\ syncLog.outcome = "synced"
    /\ NumRequeues(tlsQueue, tlsObj) > 1
    /\ Settled(tlsObj.Object)
    /\ apisix[SslID(tlsObj.Object)] = TranslateSSL(tlsCache[tlsObj.Object]).ssl

---------------------------------------------------------------------------
(* C13 *)

\* the items of a queue that wait for a processing attempt: delayed or
\* ready, not in flight
Awaiting(q) ==
    {q.queue[i] : i \in 1..Len(q.queue)}
        \cup {q.waiting[i].item : i \in 1..Len(q.waiting)}

\* C13: in both controllers the work queue holds at most one item awaiting
\* a processing attempt per namespace/name key, however many events of the
\* key were enqueued before any of them was processed.
C13_OnePendingPerKey ==
    /\ \A a, b \in Awaiting(tlsQueue) : a.Object = b.Object => a = b
    /\ \A a, b \in Awaiting(upsQueue) : a.Key = b.Key => a = b

---------------------------------------------------------------------------
(* C14 *)

\* C14: in both controllers an Update notification whose old object is not
\* older than the new one (same version, or a later one) enqueues nothing,
\* so that no translation, index change or gateway call follows from it.
C14_NotOlderUpdateIsNoOp ==
    [][/\ \A k \in TlsKeys, a \in Aheads :
             ApisixTlsUpdateNotified(k, a) => tlsQueue' = tlsQueue
       /\ \A k \in UpsKeys, a \in Aheads :
             ApisixUpstreamUpdateNotified(k, a) => upsQueue' = upsQueue]_vars

---------------------------------------------------------------------------
(* C15 *)

\* C15: in the upstream controller every Update notification whose new
\* object carries a later version than the old one puts one new item for
\* the object's key into the work queue.
C15_NewerUpdateEnqueued ==
    [][\A k \in UpsKeys :
          ApisixUpstreamUpdated(k)
          => \E item \in Awaiting(upsQueue') \ Awaiting(upsQueue) :
                item.Key = k]_vars

---------------------------------------------------------------------------
(* C16 *)

\* C16: when the upstream syncHandler has processed an item whose
\* conversion into gateway upstreams failed, it has returned an error and
\* made no gateway call.
C16_ConvertFailureIsFailure ==
    (upsPc = "finish" /\ upsLog.convertErr)
    => (upsLog.err /\ upsLog.call = "none")

---------------------------------------------------------------------------
(* C17 *)

\* the worker holds an item it has dequeued
TlsWorking == tlsPc \in {"sync", "handle"}

UpsWorking == upsPc \in {"sync", "finish"}

\* C17: in each controller a worker holds a dequeued item only when the
\* informers the controller reads from have synced (the ApisixTls and
\* secret informers for the TLS controller, the ApisixUpstream informer for
\* the upstream controller), and the TLS worker is not started while they
\* have not, so not when the wait for them was aborted.
C17_NoWorkBeforeSync ==
    /\ TlsWorking => TlsInformers \subseteq synced
    /\ UpsWorking => UpstreamInformers \subseteq synced
    /\ (tlsPc # "idle") => TlsInformers \subseteq synced

---------------------------------------------------------------------------
(* C18 *)

\* a step in which a worker dequeues an item
TlsGetStep == tlsPc = "get" /\ tlsPc' = "sync"

UpsGetStep == upsPc = "get" /\ upsPc' = "sync"

\* C18: in each controller, once the shutdown signal has fired and the run
\* function has acted on it (the TLS run has shut the queue down, the
\* upstream Run has returned), no worker dequeues an item any more.
C18_NoDequeueAfterShutdown ==
    [][(stop /\ runPc = "returned") => ~(TlsGetStep \/ UpsGetStep)]_vars

---------------------------------------------------------------------------
(* C19 *)

\* C19: in both controllers the work queue never holds, in any form, an
\* item for a key that the namespace-watch predicate rejects, so that no
\* reconcile, index change or gateway call happens for such a key.
C19_UnwatchedNeverEnqueued ==
    /\ \A item \in Pending(tlsQueue) : namespaceWatching(item.Object)
    /\ \A item \in Pending(upsQueue) : namespaceWatching(item.Key)

---------------------------------------------------------------------------
(* C20 *)

\* the service of the input has a port with the requested number
HasRequestedPort(in) ==
    /\ in.svc # Nil
    /\ \E i \in 1..Len(in.svc.Ports) : in.svc.Ports[i].Port = in.port

\* the name of the first service port with the requested number
RequestedName(in) ==
    LET i == CHOOSE i \in 1..Len(in.svc.Ports) :
                 /\ in.svc.Ports[i].Port = in.port
                 /\ \A j \in 1..(i - 1) : in.svc.Ports[j].Port # in.port
    IN  in.svc.Ports[i].Name

\* a subset has a port with the name
HasPortNamed(subset, name) ==
    \E i \in 1..Len(subset.Ports) : subset.Ports[i].Name = name

\* the number of the first port of the subset with the name
NumberOfPortNamed(subset, name) ==
    LET i == CHOOSE i \in 1..Len(subset.Ports) :
                 /\ subset.Ports[i].Name = name
                 /\ \A j \in 1..(i - 1) : subset.Ports[j].Name # name
    IN  subset.Ports[i].Port

\* the number of nodes the first n subsets contribute
RECURSIVE NodesBefore(_, _, _)
NodesBefore(subsets, name, n) ==
    IF n = 0 THEN 0
    ELSE NodesBefore(subsets, name, n - 1) +
         (IF HasPortNamed(subsets[n], name)
          THEN Len(subsets[n].Addresses) ELSE 0)

\* C20: when the service has a port with the requested number, named N,
\* TranslateUpstreamNodes returns no error and a list that holds, for every
\* subset with a port named N and in the order of the subsets, one node per
\* address in the order of the addresses, with the address as IP, the
\* number of the subset's port named N as Port and the weight 100, and no
\* other node: subsets without a port named N contribute nothing and the
\* list is empty when no subset has one.
C20_NodesOfMatchingSubsets ==
    (trOut # Nil /\ HasRequestedPort(trIn))
    => LET N == RequestedName(trIn)
           subsets == trIn.Subsets
       IN  /\ ~trOut.err
           /\ Len(trOut.nodes) = NodesBefore(subsets, N, Len(subsets))
           /\ \A s \in 1..Len(subsets) :
                 HasPortNamed(subsets[s], N)
                 => \A a \in 1..Len(subsets[s].Addresses) :
                       trOut.nodes[NodesBefore(subsets, N, s - 1) + a] =
                           [IP |-> subsets[s].Addresses[a],
                            Port |-> NumberOfPortNamed(subsets[s], N),
                            Weight |-> 100]
           /\ (\A s \in 1..Len(subsets) : ~HasPortNamed(subsets[s], N))
              => trOut.nodes = <<>>

\* port 80 named http was asked for; the first subset has only an https
\* port and is skipped, the second has two http ports and two addresses
C20_Witness ==
    /\ trOut # Nil
    /\ trIn.port = 80
    /\ trIn.svc = [Ports |-> <<NamedPort("http", 80), NamedPort("https", 443)>>]
    /\ Len(trIn.Subsets) = 2
    /\ trIn.Subsets[1] = [Ports |-> <<NamedPort("https", 8443)>>,
                          Addresses |-> <<"10.0.0.1">>]
    /\ trIn.Subsets[2] = [Ports |-> <<NamedPort("http", 8080),
                                     NamedPort("http", 9090)>>,
                          Addresses |-> <<"10.0.0.2", "10.0.0.1">>]
    /\ trOut = [err |-> FALSE, field |-> "",
                nodes |-> <<[IP |-> "10.0.0.2", Port |-> 8080, Weight |-> 100],
                            [IP |-> "10.0.0.1", Port |-> 8080, Weight |-> 100]>>]

\* the service has the port but no subset has a port of its name: the
\* result is the empty list without an error
C20_WitnessEmpty ==
    /\ trOut # Nil
    /\ HasRequestedPort(trIn)
    /\ Len(trIn.Subsets) = 2
    /\ \A s \in 1..2 : trIn.Subsets[s].Addresses # <<>>
    /\ ~trOut.err
    /\ trOut.nodes = <<>>

---------------------------------------------------------------------------
(* C21 *)

\* the call of TranslateUpstream has returned or aborted
UpstreamTranslated == controller = "resolver" /\ trOut # Nil

\* the node resolution of the call succeeded
NodesResolved == ~ResolveNodes(trIn).panic /\ ~ResolveNodes(trIn).err

\* C21: when the node resolution of TranslateUpstream succeeds and the
\* lookup of the ApisixUpstream of the namespace and name reports not-found,
\* the call returns no error and the default upstream object with exactly
\* the resolved nodes as its nodes.
C21_DefaultsWhenNoPolicy ==
    (UpstreamTranslated /\ NodesResolved /\ trIn.lookup.err = "notFound")
    => /\ ~trOut.panic
       /\ ~trOut.err
       /\ trOut.ups.Nodes = ResolveNodes(trIn).nodes
       /\ \A f \in DOMAIN NewDefaultUpstream \ {"Nodes"} :
             trOut.ups[f] = NewDefaultUpstream[f]
       /\ DOMAIN trOut.ups = DOMAIN NewDefaultUpstream

\* no policy exists and the Endpoints of the service yield nodes
C21_Witness ==
    /\ UpstreamTranslated
    /\ trIn.mode = EndpointsOnly
    /\ trIn.lookup.err = "notFound"
    /\ ~trOut.err
    /\ ~trOut.panic
    /\ Len(trOut.ups.Nodes) = 2

\* no policy exists and the EndpointSlice of the service yields nodes
C21_WitnessSlice ==
    /\ UpstreamTranslated
    /\ trIn.mode = EndpointSliceOnly
    /\ trIn.lookup.err = "notFound"
    /\ ~trOut.err
    /\ ~trOut.panic
    /\ Len(trOut.ups.Nodes) = 3

---------------------------------------------------------------------------
(* C22 *)

\* C22: an unrecognized endpoint mode is rejected when the translator is
\* constructed: no translator exists with such a mode and no call of
\* TranslateUpstream aborts because of it.
C22_UnknownModeRejected ==
    /\ (controller = "resolver" /\ runPc = "constructed")
       => trIn.mode \in {EndpointsOnly, EndpointSliceOnly}
    /\ UpstreamTranslated => ~trOut.panic

---------------------------------------------------------------------------
(* C24 *)

\* the positions of the port-level settings with the requested port
MatchingSettings ==
    {i \in 1..Len(trIn.lookup.au.PortLevelSettings) :
        trIn.lookup.au.PortLevelSettings[i].Port = trIn.port}

\* the configuration the call has to translate
ChosenConfig ==
    IF MatchingSettings = {} THEN trIn.lookup.au.Config
    ELSE LET i == CHOOSE m \in MatchingSettings :
                      \A o \in MatchingSettings : m <= o
         IN  trIn.lookup.au.PortLevelSettings[i].Config

\* C24: when the ApisixUpstream exists, TranslateUpstream translates the
\* configuration of the first port-level setting whose port is the requested
\* one, and the top-level configuration when there is none; the resolved
\* nodes are the nodes of the result, and when the translation of the
\* configuration fails the call returns that error and no upstream.
C24_PortLevelSettingFirst ==
    (UpstreamTranslated /\ NodesResolved /\ trIn.lookup.err = "")
    => LET c == TranslateUpstreamConfig(ChosenConfig)
       IN  /\ ~trOut.panic
           /\ trOut.err = c.err
           /\ c.err => trOut.ups = Nil /\ trOut.field = c.field
           /\ ~c.err => /\ trOut.ups.Nodes = ResolveNodes(trIn).nodes
                        /\ [trOut.ups EXCEPT !.Nodes = <<>>] = c.ups

\* two settings have the requested port and differ; the first is used
C24_Witness ==
    /\ UpstreamTranslated
    /\ NodesResolved
    /\ trIn.lookup.err = ""
    /\ Cardinality(MatchingSettings) = 2
    /\ \E i, j \in MatchingSettings :
          TranslateUpstreamConfig(
              trIn.lookup.au.PortLevelSettings[i].Config).ups #
          TranslateUpstreamConfig(
              trIn.lookup.au.PortLevelSettings[j].Config).ups
    /\ ~trOut.err
    /\ trOut.ups.Type = "ewma"
    /\ Len(trOut.ups.Nodes) > 0

\* settings exist but none has the requested port: the top level is used
C24_WitnessTopLevel ==
    /\ UpstreamTranslated
    /\ NodesResolved
    /\ trIn.lookup.err = ""
    /\ trIn.lookup.au.PortLevelSettings # <<>>
    /\ MatchingSettings = {}
    /\ trIn.lookup.au.Config = GrpcConfig
    /\ ~trOut.err
    /\ trOut.ups.Scheme = "grpc"
    /\ Len(trOut.ups.Nodes) > 0

\* the chosen configuration does not translate
C24_WitnessFailure ==
    /\ UpstreamTranslated
    /\ NodesResolved
    /\ trIn.lookup.err = ""
    /\ MatchingSettings # {}
    /\ trOut.err
    /\ trOut.field = "scheme"
    /\ trOut.ups = Nil

---------------------------------------------------------------------------
(* C23 *)

\* the items that wait in the queue after the step and did not before
NewlyWaiting(q, qAfter) ==
    {qAfter.waiting[i].item : i \in 1..Len(qAfter.waiting)}
        \ {q.waiting[i].item : i \in 1..Len(q.waiting)}

\* every rate-limited add of the step counts the item once more and delays
\* it by 1 second up to the fifth add and by 60 seconds after it
RegimeOfAdds(q, qAfter) ==
    \A item \in NewlyWaiting(q, qAfter) :
        LET k == NumRequeues(qAfter, item)
        IN  /\ k = NumRequeues(q, item) + 1
            /\ WaitingAdd(qAfter, item).delay = IF k <= 5 THEN 1 ELSE 60

\* C23: in both controllers the k-th rate-limited add of a queue item since
\* it was last forgotten, the first enqueue by a watch callback being the
\* first, is delayed by 1 second when k <= 5 and by 60 seconds when k > 5,
\* and the end of a successful reconcile resets the count of the item to 0.
C23_RetryRegimes ==
    [][/\ RegimeOfAdds(tlsQueue, tlsQueue')
       /\ RegimeOfAdds(upsQueue, upsQueue')
       /\ (TlsHandleStep /\ ~tlsErr) => NumRequeues(tlsQueue', tlsObj) = 0
       /\ (UpsFinishStep /\ ~upsLog.err)
          => NumRequeues(upsQueue', upsObj) = 0]_vars

\* an item that was forgotten is counted no more while a later item of the
\* queue has been added a sixth time and waits for 60 seconds
C23_Witness ==
    \E i \in 1..Len(tlsQueue.waiting) :
        LET item == tlsQueue.waiting[i].item
        IN  /\ NumRequeues(tlsQueue, item) = 6
            /\ tlsQueue.waiting[i].delay = 60
            /\ \E id \in (first + 1)..(item.id - 1) :
                  /\ id \notin DOMAIN tlsQueue.failures
                  /\ \A other \in Pending(tlsQueue) : other.id # id
                  /\ tlsObj # Nil => tlsObj.id # id

\* an item waits for its fifth attempt with the fast delay
C23_WitnessFast ==
    \E i \in 1..Len(upsQueue.waiting) :
        /\ NumRequeues(upsQueue, upsQueue.waiting[i].item) = 5
        /\ upsQueue.waiting[i].delay = 1

---------------------------------------------------------------------------
(* C25 *)

\* both executions of syncSecretSSL have returned
CallsDone == controller = "index" /\ \A c \in Callers : calls[c].pc = "done"

\* the two executions upsert different IDs under the same secret identity
TwoUpserts ==
    /\ calls[1].key = calls[2].key
    /\ calls[1].ssl.ID # calls[2].ssl.ID
    /\ calls[1].event # EventDelete
    /\ calls[2].event # EventDelete

\* C25: when two executions of syncSecretSSL upsert two different SSL IDs
\* under the same secret identity, whatever their interleaving and whether
\* or not the bucket of the secret existed before, the bucket holds both IDs
\* once both executions have returned.
C25_NoLostUpdate ==
    (CallsDone /\ TwoUpserts)
    => /\ calls[1].key \in DOMAIN secretSSLMap
       /\ \A c \in Callers :
             Entry(secretSSLMap, calls[c].key, calls[c].ssl.ID) = calls[c].ssl

---------------------------------------------------------------------------
(* C26 *)

\* the secret identities whose bucket holds the ssl ID
BucketsWith(id) ==
    {s \in DOMAIN secretSSLMap : id \in DOMAIN secretSSLMap[s]}

\* C26: at every state each ssl ID is in at most one bucket of the secret
\* index; once an Update that changed the secret reference of a binding has
\* been reconciled, the bucket of the secret referred to before no longer
\* holds the ID of the binding.
C26_OneBucketPerID ==
    \A id \in SslIDs : Cardinality(BucketsWith(id)) <= 1

---------------------------------------------------------------------------
(* C27 *)

\* no item is queued, delayed or in flight
Drained == tlsPc = "get" /\ Pending(tlsQueue) = {}

\* C27: in every state of the TLS controller in which no item is queued,
\* delayed or in flight, whatever notifications, gateway failures and
\* requeues came before, the gateway holds an SSL object with the ID
\* namespace_name exactly when the cache holds the binding namespace/name,
\* for every binding of a watched namespace.
C27_DrainedIsConsistent ==
    (controller = "tls" /\ Drained)
    => \A k \in TlsKeys :
          namespaceWatching(k)
          => (SslID(k) \in DOMAIN apisix <=> tlsCache[k] # Nil)

\* after three writes the queue is drained and a binding is in the cache
\* and on the gateway
C27_Witness ==
    /\ controller = "tls"
    /\ Drained
    /\ clock = first + 3
    /\ \E k \in TlsKeys :
          /\ namespaceWatching(k)
          /\ tlsCache[k] # Nil
          /\ SslID(k) \in DOMAIN apisix
          /\ apisix[SslID(k)].Snis = tlsCache[k].Hosts

\* the queue is drained after a binding was synced and then deleted
C27_WitnessDeleted ==
    /\ controller = "tls"
    /\ Drained
    /\ \E k \in TlsKeys :
          /\ namespaceWatching(k)
          /\ tlsCache[k] = Nil
          /\ SslID(k) \notin DOMAIN apisix
          /\ \E s \in DOMAIN secretSSLMap : secretSSLMap[s] = <<>>

\* a Delete that had failed and was requeued is found stale on its retry:
\* the binding was created again and synced meanwhile, the retry leaves
\* the gateway object as it is and is the last item of the queue
C27_WitnessStale ==
    /\ controller = "tls"
    /\ tlsPc = "handle"
    /\ tlsObj.Type = EventDelete
    /\ NumRequeues(tlsQueue, tlsObj) > 1
    /\ syncLog.outcome = "discarded"
    /\ ~tlsErr
    /\ Pending(tlsQueue) = {tlsObj}
    /\ tlsCache[tlsObj.Object] # Nil
    /\ SslID(tlsObj.Object) \in DOMAIN apisix

====
